---- MODULE Spec2Model ----
(***************************************************************************)
(* The bridge-and-supervise engine of mcp_pipe.py: connect_with_retry (the *)
(* supervisor), connect_to_server (one bridge attempt), its three pumps,   *)
(* the deferred tool-discovery probe, the shared connection semaphore      *)
(* created by _main, and the status file .mcp_status.json that mcp_pipe.py *)
(* shares with the heartbeat monitor of mcp_web.py.                        *)
(*                                                                         *)
(* Durations are counted in ticks; TicksPerSecond ticks make one second.   *)
(***************************************************************************)
EXTENDS Integers, Sequences, FiniteSets, TLC

VARIABLES
    targets,            \* the targets _main started a connect_with_retry task for
    semaphore,          \* <<>> when connect_with_retry got no semaphore, else <<free permits>>
    pc,                 \* per target: where its supervisor / bridge attempt stands ("cancelled" at the end)
    reconnect_attempt,  \* connect_with_retry: reconnect_attempt
    backoff,            \* connect_with_retry: backoff (ticks)
    permit,             \* per target: between semaphore.acquire() and semaphore.release()
    websocket,          \* per target: "None" | "OPEN" | "CLOSED"
    exc,                \* per target: the exception of the attempt ("None" when none)
    process,            \* connect_to_server: process (<<>> for None, else <<handle, args>>)
    alive,              \* per target: the handles of its subprocesses that are running
    ended,              \* per target: how process ended: "None" | "exited" | "terminated" | "killed"
    ws_pump,            \* pipe_websocket_to_process: "idle" | "recv" | "write" | "done" | "raised"
    out_pump,           \* pipe_process_to_websocket: "idle" | "read" | "send" | "done" | "raised"
    err_pump,           \* pipe_process_stderr_to_terminal: "idle" | "read" | "done"
    message,            \* pipe_websocket_to_process: message (<<>> or <<the message>>)
    data,               \* pipe_process_to_websocket: data (<<>> or <<the line>>)
    peer_sent,          \* per target: messages the endpoint sent on this connection, in order
    nrecv,              \* per target: how many of them websocket.recv() has returned
    stdin,              \* per target: what was written (and flushed) to process.stdin, in order
    stdout,             \* per target: lines the subprocess produced on stdout, in order
    nread,              \* per target: how many of them process.stdout.readline has returned
    ws_out,             \* per target: messages websocket.send() has sent, in order
    stderr,             \* per target: lines the subprocess produced on stderr, in order
    nerr,               \* per target: how many of them process.stderr.readline has returned
    terminal,           \* what was written to sys.stderr of mcp_pipe.py, in order
    close_code,         \* per target: the close code the endpoint closed the connection with (0: none)
    config,             \* mcp_config.json: the entry of each server name ("absent" when it has none)
    status_file,        \* .mcp_status.json: [tools |-> server -> record, endpoints |-> name -> record]
    writes,             \* per target: the statuses connect_to_server passed to update_tool_status, in order
    probes,             \* per target: the get_tools_delayed tasks created and not finished
    dialed,             \* per target: how many times websockets.connect has succeeded
    spawned,            \* per target: how many times subprocess.Popen has succeeded
    web_data,           \* mcp_web update_status: what read_status() returned (<<>> outside update_status)
    environ,            \* os.environ of the mcp_pipe.py process
    endpoints_cfg,      \* mcp_config.json: mcpEndpoints, in file order: [name, enabled, url]
    main_env,           \* what _main reads besides: connect_all_endpoints, MCP_CONNECT_ALL, MCP_ENDPOINT, MCP_CONNECT_BATCH_SIZE
    main_pc,            \* _main: "start" | "schedule" | "sleep" | "gather" | "raised" | "exited"
    pending,            \* _main: pending, the (url, target) pairs of connect-all mode
    tasks,              \* _main: the connect_with_retry tasks created, in order: [uri, target, semaphore]
    batch_start,        \* _schedule_in_batches: i
    burst,              \* how many tasks were created since the last sleep between batches
    calls,              \* per server name: <<>> or <<[cfg, result, again]>> of the last build_server_command call
    config_file,        \* mcp_config.json as the web API reads and writes it: top-level key -> value
    response,           \* mcp_web.py: the last request that changes the servers, and its answer
    pid_file,           \* mcptool.py: .mcp_pid (<<>> when the file is missing, else <<the PID in it>>)
    web_pid_file,       \* mcptool.py: .mcp_web_pid, likewise
    running,            \* the PIDs of the processes that are alive
    service_pids,       \* the PIDs of the mcp_pipe.py processes `start` has launched
    next_pid,           \* the PID the next subprocess.Popen gets
    last,               \* the last CLI command: what it found and what it echoed
    task_counter,       \* TaskManager.task_counter
    task_status,        \* TaskManager.tasks[task_id]["status"] ("none" while the task does not exist)
    delay,              \* TaskManager.tasks[task_id]["delay"]
    creator,            \* add_task of the task: "none" | "started" (timer.start() done) | "returned"
    timer,              \* the Timer thread of the task: "none" | "waiting" | "cancelled" | "want_lock" |
                        \*   "locked" | "playing" | "played" | "raising" | "done"
    audio_lock,         \* 0 when free, else the task whose thread holds it
    cancel_result,      \* per task: what the last cancel_task returned ("none" | "True" | "False")
    monitor_loops,      \* mcp_web.py: the event loops start_endpoint_monitors has started
    monitors            \* per endpoint name: the endpoint_heartbeat tasks that run

supervisor_vars == <<pc, reconnect_attempt, backoff, permit, exc>>
session_vars == <<websocket, process, alive, ended>>
pump_vars == <<ws_pump, out_pump, err_pump, message, data>>
stream_vars == <<peer_sent, nrecv, stdin, stdout, nread, ws_out>>
report_vars == <<status_file, writes, probes, dialed, spawned, web_data>>
main_vars == <<endpoints_cfg, main_env, main_pc, pending, tasks, batch_start, burst>>
api_vars == <<config_file, response>>
cli_vars == <<pid_file, web_pid_file, running, service_pids, next_pid, last>>
task_vars == <<task_counter, task_status, delay, creator, timer, audio_lock, cancel_result>>
monitor_vars == <<monitor_loops, monitors>>
service_vars == <<api_vars, cli_vars, task_vars, monitor_vars>>
start_vars == <<environ, calls, main_vars, service_vars>>
stderr_vars == <<stderr, nerr, terminal>>
vars == <<targets, start_vars, stderr_vars, semaphore, supervisor_vars, session_vars, pump_vars, stream_vars,
          close_code, config, report_vars>>
\* the bridges, their configuration and _main
pipe_vars == <<targets, environ, calls, main_vars, stderr_vars, semaphore, supervisor_vars,
               session_vars, pump_vars, stream_vars, close_code, config, report_vars>>

----------------------------------------------------------------------------
(* Bounds of the model. *)

\* failures explored for the single target of script mode
MaxAttempts == 11
\* failures explored per target when several supervisors share the semaphore
MaxAttemptsShared == 1
\* messages the endpoint sends on one connection of the traffic scenario
MaxMessages == 2
\* lines the subprocess prints on stdout in one attempt of the traffic scenario
MaxLines == 2
\* the largest MCP_CONNECT_BATCH_SIZE
MaxBatch == 2
\* processes the CLI starts
MaxPids == 5
\* timer tasks that are created
MaxTasks == 2
\* servers in one import request
MaxImport == 2
\* calls of restart_endpoint_monitors
MaxRestarts == 2
\* resolution of random.uniform: jitter values are multiples of 1/TicksPerSecond s
TicksPerSecond == 1
\* permits of the semaphore (MCP_MAX_CONCURRENT_CONNECTIONS in the environment)
MAX_CONCURRENT_CONNECTIONS == 1

(* Program constants. *)
INITIAL_BACKOFF == 1
MAX_BACKOFF == 600
\* the permits of the semaphore when MCP_MAX_CONCURRENT_CONNECTIONS is not set
DEFAULT_CONCURRENT_CONNECTIONS == 8

----------------------------------------------------------------------------
(* The runs that are explored. *)

\* python mcp_pipe.py calc.py : one supervisor, no semaphore (line 1387)
ScriptTarget == "calc.py"
\* the same mode, with an endpoint and a subprocess that exchange traffic
TrafficTarget == "echo.py"
\* python mcp_pipe.py : one supervisor per enabled server on the first endpoint
SharedTargets == {"calc::e1", "echo::e1", "time::e1"}
\* python mcp_pipe.py with connect_all_endpoints: every server on every endpoint
PairTargets == {"math::e1", "math::e2"}
\* python mcp_pipe.py started by mcp_web.py, which monitors the endpoint: one
\* enabled server whose tools, configuration entry and close codes vary
StatusTarget == "tool::e1"
\* the targets of the fallback of _main: the server names themselves, all on MCP_ENDPOINT
FallbackTargets == {"calc", "echo"}
AllTargets == {ScriptTarget, TrafficTarget, StatusTarget} \cup SharedTargets \cup PairTargets
              \cup FallbackTargets

\* how many failures the environment causes for target t; the endpoint and
\* the subprocess of the third shared target never fail
FailureCap(t) ==
    IF t = ScriptTarget THEN MaxAttempts
    ELSE IF t = "time::e1" THEN 0 ELSE MaxAttemptsShared
\* the kinds of failure the environment causes for target t: a refused dial,
\* a failed spawn, a close by the endpoint, an exit of the subprocess, a
\* message that is no UTF-8, a disabled configuration entry
FailureKinds(t) ==
    IF t = ScriptTarget THEN {"dial", "spawn", "close", "exit"}
    ELSE IF t = StatusTarget THEN {"dial", "close", "exit", "config"}
    ELSE IF t = TrafficTarget THEN {"dial", "close", "exit", "garbage"}
    ELSE IF t \in {"calc::e1", "math::e2", "calc"} THEN {"dial", "exit"}
    ELSE IF t \in {"echo::e1", "math::e1", "echo"} THEN {"close"}
    ELSE {}
\* the attempts of target t in which its endpoint accepts connections while
\* the environment still causes failures: the endpoint of script mode is down
\* from the second attempt on, until the failures are over
UpAttempts(t) == IF t = ScriptTarget THEN 1 ELSE FailureCap(t)
\* how many messages / lines the environment produces per attempt for target t;
\* of the shared targets, the endpoint talks to the first only and only the
\* subprocess of the second prints; likewise for the two pairings of one server
MessageCap(t) ==
    IF t = TrafficTarget THEN MaxMessages
    ELSE IF t \in {ScriptTarget, StatusTarget, "calc::e1", "math::e1", "calc"} THEN 1 ELSE 0
LineCap(t) ==
    IF t = TrafficTarget THEN MaxLines
    ELSE IF t \in {ScriptTarget, StatusTarget, "echo::e1", "math::e2", "echo"} THEN 1 ELSE 0

\* how many lines the subprocess of target t prints on stderr per attempt
ErrLineCap(t) == IF t = "echo" THEN 1 ELSE 0

Min(a, b) == IF a < b THEN a ELSE b

----------------------------------------------------------------------------
(* connect_with_retry: the backoff arithmetic (lines 243-245). *)

\* the doubling without its ceiling
Doubled_uncapped(b) == b * 2

\* backoff = min(backoff * 2, MAX_BACKOFF)
Doubled(b) == Min(b * 2, MAX_BACKOFF * TicksPerSecond)

\* jitter = random.uniform(0, min(1.0, backoff)), on the tick grid
JitterValues(b) == 0 .. Min(TicksPerSecond, b)
\* the jitter values drawn for target t: the whole grid in script mode, the
\* two ends of the interval for every other target
JitterDrawn(t, b) ==
    IF t = ScriptTarget THEN JitterValues(b) ELSE {0, Min(TicksPerSecond, b)}

\* backoff = backoff + jitter
NextBackoff(b, jitter) == Doubled(b) + jitter

(* asyncio.Semaphore as connect_with_retry uses it (lines 227-237). *)

\* an acquire that never waits
Locked_never(sem) == FALSE

\* semaphore.acquire() has to wait
Locked(sem) == sem # <<>> /\ sem[1] <= 0

Acquired(sem) == IF sem = <<>> THEN sem ELSE <<sem[1] - 1>>

\* a release that is skipped
Released_skipped(sem) == sem

\* semaphore.release()
Released(sem) == IF sem = <<>> THEN sem ELSE <<sem[1] + 1>>

(* connect_to_server: the finally block (lines 318-324). *)

\* process.terminate(); process.wait(timeout=5); on TimeoutExpired process.kill().
\* graceful: the subprocess ends within the 5 s after SIGTERM.
\* the finally block without the kill after TimeoutExpired
StillAlive_without_kill(live, h, graceful) == IF graceful THEN live \ {h} ELSE live

\* The subprocesses left running out of live, and what became of handle h.
StillAlive(live, h, graceful) == live \ {h}
EndedBy(live, h, how, graceful) ==
    IF h \notin live THEN how
    ELSE IF graceful THEN "terminated" ELSE "killed"

(* The messages of a connection and the lines of a subprocess. *)

\* a str message of websocket.recv()
Str(text) == [kind |-> "str", text |-> text, raw |-> <<>>]
\* a bytes message of websocket.recv()
Bytes(raw) == [kind |-> "bytes", text |-> <<>>, raw |-> raw]

\* bytes.decode('utf-8') for the code points used here; 255 is no UTF-8 start byte
Utf8Valid(raw) == \A i \in DOMAIN raw : raw[i] < 128
Utf8Char(byte) == IF byte = 97 THEN "a" ELSE IF byte = 98 THEN "b" ELSE "?"
Utf8Decode(raw) == [i \in DOMAIN raw |-> Utf8Char(raw[i])]

\* lines 337-338: if isinstance(message, bytes): message = message.decode('utf-8')
Decoded(m) == IF m.kind = "bytes" THEN Utf8Decode(m.raw) ELSE m.text

\* the write without the newline
StdinText_without_newline(m) == Decoded(m)

\* line 339: process.stdin.write(message + '\n')
StdinText(m) == Decoded(m) \o <<"\n">>

\* a send of the stripped line
Sent_stripped(line) == SubSeq(line, 1, Len(line) - 1)

\* line 369: await websocket.send(data)
Sent(line) == line

\* what the endpoint may send to target t, and what t's subprocess may print
Messages(t) ==
    IF t = TrafficTarget THEN {Str(<<"a">>), Bytes(<<98>>), Bytes(<<255>>)}
    ELSE {Str(<<"a">>)}
Lines(t) ==
    IF t = TrafficTarget THEN {<<"x", "\n">>, <<"y", "\n">>} ELSE {<<"x", "\n">>}
\* what t's subprocess may print on stderr
ErrLines(t) == {<<"e", "\n">>}

----------------------------------------------------------------------------
(* Targets: "server::endpoint" or a script path. *)

\* target.split('::', 1)[0] when '::' is in target, else target (lines 97-99, 429-430)
base_name(target) ==
    CASE target \in {"calc::e1", "calc::e2"} -> "calc"
      [] target \in {"echo::e1"} -> "echo"
      [] target \in {"time::e1"} -> "time"
      [] target \in {"math::e1", "math::e2"} -> "math"
      [] target \in {"tool::e1"} -> "tool"
      [] OTHER -> target

\* '::' in target
HasEndpoint(target) == target \in SharedTargets \cup PairTargets \cup {StatusTarget, "calc::e2"}

\* the uri of script mode (MCP_ENDPOINT)
Uri == "ws://endpoint"

\* target.split('::', 1)[1] when '::' is in target, else uri (lines 256-259, 307, 313)
endpoint_name(target) ==
    CASE target \in SharedTargets \cup {"math::e1", "tool::e1"} -> "e1"
      [] target \in {"math::e2", "calc::e2"} -> "e2"
      [] OTHER -> Uri

Servers(ts) == {base_name(t) : t \in ts}

----------------------------------------------------------------------------
(* mcp_config.json and build_server_command (lines 403-475). *)

\* dict.get(k, default) and d[k] = v on a JSON object
Get(d, k, default) == IF k \in DOMAIN d THEN d[k] ELSE default
Put(d, k, v) == [x \in DOMAIN d \cup {k} |-> IF x = k THEN v ELSE d[x]]

\* an entry of mcpServers; a field that is missing is "" (<<>> for args,
\* headers and env), which the code treats like the empty value
ServerEntry(disabled, type, transportType, command, url, env) ==
    [present |-> TRUE, disabled |-> disabled, type |-> type,
     transportType |-> transportType, command |-> command, args |-> <<>>,
     url |-> url, headers |-> <<>>, env |-> env]
Entry(command) == ServerEntry(FALSE, "stdio", "", command, "", <<>>)
Disabled(command) == ServerEntry(TRUE, "stdio", "", command, "", <<>>)
Absent == [present |-> FALSE, disabled |-> FALSE, type |-> "", transportType |-> "",
           command |-> "", args |-> <<>>, url |-> "", headers |-> <<>>, env |-> <<>>]

\* the scripts that exist (os.path.exists)
Scripts == {ScriptTarget, TrafficTarget}

\* the configuration _main found: its enabled servers, and no entry named
\* like the script of script mode
InitialEntry(s) == IF s \in Scripts \cup {"nosuch.py"} THEN Absent ELSE Entry("run-v1")

\* what an edit of mcp_config.json may make of the entry of server s
ConfigEntries(s) ==
    IF s = "tool" THEN {Entry("run-v1"), Entry("run-v2"), Disabled("run-v1")}
    ELSE IF s = "calc" THEN {Entry("run-v1"), Disabled("run-v1")}
    ELSE {InitialEntry(s)}

\* os.environ when mcp_pipe.py starts
ProcessEnv == Put(<<>>, "PATH", "/usr/bin")

\* the env of an entry of mcpServers: none, or one that replaces PATH
EntryEnvs == {<<>>, Put(<<>>, "PATH", "/opt/bin")}

\* the type names an entry may carry ("" when the field is missing)
TypeNames == {"", "stdio", "STDIO", "sse", "SSE", "http", "streamablehttp", "grpc"}

\* the entries build_server_command is applied to
ResolverEntries ==
    {Absent} \cup
    {ServerEntry(disabled, type, transportType, command, url, env) :
        disabled \in BOOLEAN, type \in TypeNames, transportType \in {"", "sse"},
        command \in {"", "run-v1"}, url \in {"", "http://srv/sse"},
        env \in EntryEnvs}

\* the targets build_server_command is called with: a pairing of a server, a
\* script that exists and a path that does not exist
ResolveTargets == {"calc::e1", TrafficTarget, "nosuch.py"}

\* raise RuntimeError(text)
RuntimeError(text) == [ok |-> FALSE, cmd |-> <<>>, env |-> <<>>, error |-> text]
\* return cmd, env
LaunchSpec(cmd, env) == [ok |-> TRUE, cmd |-> cmd, env |-> env, error |-> ""]

\* str.lower() without effect
lower_identity(str) == str

\* str.lower() on the type names that occur
lower(str) ==
    CASE str = "STDIO" -> "stdio"
      [] str = "SSE" -> "sse"
      [] OTHER -> str

\* x or y on strings: the first that is not empty
Or(x, y) == IF x # "" THEN x ELSE y

\* line 438: typ = (entry.get("type") or entry.get("transportType") or "stdio").lower()
typ(entry) == lower(Or(entry.type, Or(entry.transportType, "stdio")))

\* lines 441-443: child_env = os.environ.copy(), then the env of the entry is put over it
child_env(env, entry) == [k \in DOMAIN env \cup DOMAIN entry.env |->
                             IF k \in DOMAIN entry.env THEN entry.env[k] ELSE env[k]]

\* lines 456-466: the mcp_proxy command for an sse / http / streamablehttp entry
RECURSIVE HeaderArgs(_)
HeaderArgs(headers) ==
    IF headers = <<>> THEN <<>>
    ELSE <<"-H", Head(headers)[1], Head(headers)[2]>> \o HeaderArgs(Tail(headers))
proxy_cmd(entry) ==
    <<"python", "-m", "mcp_proxy">>
    \o (IF typ(entry) \in {"http", "streamablehttp"} THEN <<"--transport", "streamablehttp">> ELSE <<>>)
    \o HeaderArgs(entry.headers) \o <<entry.url>>

\* a launch spec resolved once, from the configuration _main found
build_server_command_cached(target, cfg) ==
    IF InitialEntry(base_name(target)).present
    THEN LaunchSpec(<<InitialEntry(base_name(target)).command>>, environ)
    ELSE LaunchSpec(<<"python", base_name(target)>>, environ)

\* build_server_command(target) with cfg = load_config() and os.environ as it
\* is: the entry of the server part of target, else the script path
build_server_command(target, cfg) ==
    LET name == base_name(target)
        entry == cfg[name]
    IN
    IF name \in DOMAIN cfg /\ cfg[name].present
    THEN IF entry.disabled THEN RuntimeError("disabled")
         ELSE IF typ(entry) = "stdio"
              THEN IF entry.command = "" THEN RuntimeError("missing command")
                   ELSE LaunchSpec(<<entry.command>> \o entry.args, child_env(environ, entry))
         ELSE IF typ(entry) \in {"sse", "http", "streamablehttp"}
              THEN IF entry.url = "" THEN RuntimeError("missing url")
                   ELSE LaunchSpec(proxy_cmd(entry), child_env(environ, entry))
         ELSE RuntimeError("unsupported type")
    ELSE IF name \in Scripts THEN LaunchSpec(<<"python", name>>, environ)
         ELSE RuntimeError("not found")

\* child_env is os.environ itself, not a copy
os_environ_aliased(env, resolved) == IF resolved.ok THEN resolved.env ELSE env

\* os.environ after build_server_command: lines 441 and 475 copy it, so what
\* is put into child_env does not reach it
os_environ(env, resolved) == env

----------------------------------------------------------------------------
(* The status file .mcp_status.json (lines 74-164 and mcp_web.py 63-90).   *)
(* The statuses are written "running" for 运行中, "error" for 错误 and     *)
(* "stopped" for 已停止; time stamps are left out.                         *)


\* {"endpoints": {}, "tools": {}}
EmptyStatus == [tools |-> <<>>, endpoints |-> <<>>]

\* error texts: "", f"WebSocket连接关闭: code={code} ..." and f"连接错误: {e}"
NoError == [text |-> "", code |-> 0, exc |-> ""]
ClosedError(code) == [text |-> "WebSocket closed", code |-> code, exc |-> ""]
ConnectionError(e) == [text |-> "connection error", code |-> 0, exc |-> e]

\* what tools.get(base_name, {}) and endpoints.get(endpoint_name, {}) give
\* for a missing key
NoToolRecord == [status |-> "", error |-> NoError, tools |-> <<>>]
NoEndpointRecord == [connected |-> "None", error |-> NoError, server_tools |-> <<>>]

Tool(name, description) == [name |-> name, description |-> description]

\* merged[t.get('name')] = t on a dict that keeps insertion order
Upsert(list, t) ==
    IF \E i \in DOMAIN list : list[i].name = t.name
    THEN [i \in DOMAIN list |-> IF list[i].name = t.name THEN t ELSE list[i]]
    ELSE Append(list, t)

RECURSIVE MergeInto(_, _)
MergeInto(merged, list) ==
    IF list = <<>> THEN merged
    ELSE MergeInto(Upsert(merged, Head(list)), Tail(list))

\* a merge that keeps the stored entry of a name reported again
merged_list_keeping_old(existing_tools, new_tools) ==
    MergeInto(existing_tools,
              SelectSeq(new_tools,
                        LAMBDA t : \A i \in DOMAIN existing_tools :
                                        existing_tools[i].name # t.name))

\* lines 104-109: merged = {t.get('name'): t for t in existing_tools};
\* for t in new_tools: merged[t.get('name')] = t; list(merged.values())
merged_list(existing_tools, new_tools) ==
    MergeInto(MergeInto(<<>>, existing_tools), new_tools)

\* lines 97-99: the key of the tools section
status_key(server_name) == base_name(server_name)

\* update_tool_status(server_name, status, error, tools) applied to the
\* content of the file (lines 96-129)
update_tool_status(file, server_name, status, error, tools) ==
    LET key == status_key(server_name)
        existing == Get(file.tools, key, NoToolRecord)
        merged == merged_list(existing.tools, tools)
        with_tool == [file EXCEPT !.tools =
                         Put(@, key, [status |-> status, error |-> error, tools |-> merged])]
        ep == Get(file.endpoints, endpoint_name(server_name), NoEndpointRecord)
    IN  IF HasEndpoint(server_name)
        THEN [with_tool EXCEPT !.endpoints =
                 Put(@, endpoint_name(server_name),
                     [ep EXCEPT !.server_tools = Put(@, key, merged)])]
        ELSE with_tool

\* update_endpoint_status(endpoint_name, connected, error, url) applied to
\* the content of the file (lines 152-159)
update_endpoint_status(file, name, connected, error) ==
    [file EXCEPT !.endpoints =
        Put(@, name, [connected |-> connected, error |-> error, server_tools |-> <<>>])]

\* mcp_web.py update_status("endpoints", name, {"connected": ..., "error": ...})
\* applied to what read_status() returned (lines 80-85)
update_status(status, name, connected, error) ==
    [status EXCEPT !.endpoints =
        Put(@, name, [Get(status.endpoints, name, NoEndpointRecord)
                          EXCEPT !.connected = connected, !.error = error])]

----------------------------------------------------------------------------
(* The deferred tool-discovery probe get_tools_delayed (lines 166-200 and  *)
(* 278-293).                                                               *)

\* what session.list_tools() of the server of target t may return
ToolLists(t) ==
    IF t = StatusTarget
    THEN {<<Tool("add", "v1")>>, <<Tool("add", "v2"), Tool("sub", "v1")>>}
    ELSE {<<>>}

\* how the probe of target t may go: stdio_client or the session raises, or
\* list_tools returns
ProbeOutcomes(t) ==
    {[error |-> TRUE, tools |-> <<>>]} \cup {[error |-> FALSE, tools |-> l] : l \in ToolLists(t)}

\* lines 198-200: except Exception: return []
get_tools_from_server_async(outcome) == IF outcome.error THEN <<>> ELSE outcome.tools

\* a probe whose failure is not caught
get_tools_delayed_raises_uncaught(outcome) == IF outcome.error THEN "ProbeError" ELSE "None"

\* the exception that leaves get_tools_delayed towards the bridge: none, the
\* failure is caught in get_tools_from_server_async and the task is not awaited
get_tools_delayed_raises(outcome) == "None"

\* the close codes the endpoint of target t uses
CloseCodes(t) == IF t = ScriptTarget THEN {1000, 4004} ELSE {4004}

\* what the heartbeat of mcp_web.py finds: the endpoint answers, or not
HeartbeatResults == {"True"}
\* the endpoints mcp_web.py monitors: the named endpoints of the configuration
MonitoredEndpoints == {"e1"}

\* task_id "task_<i>" of the i-th task
TaskIds == 1 .. MaxTasks

\* the endpoint names of mcpEndpoints
WebEndpointNames == {"e1", "e2"}

\* no import was requested
NoResponse == [handler |-> "", request |-> <<>>, status |-> "", imported_count |-> 0,
               conflict |-> ""]

\* no CLI command has run
NoCommand == [command |-> "", message |-> "", pid |-> 0, recorded |-> <<>>, live |-> FALSE]

\* mcp_config.json before the web API is used: one server, one endpoint and
\* the policy flag _main reads
InitialConfigFile ==
    Put(Put(Put(<<>>, "mcpServers", Put(<<>>, "calc", Entry("run-v1"))),
            "mcpEndpoints", Put(<<>>, "e1", [url |-> "ws://e1", enabled |-> TRUE])),
        "connect_all_endpoints", TRUE)

----------------------------------------------------------------------------
(* State after _main has created the connect_with_retry tasks: each task   *)
(* has reconnect_attempt = 0 and backoff = INITIAL_BACKOFF and, skipping   *)
(* the sleep, stands before the semaphore.                                 *)

InitBridges(ts, sem) ==
    /\ targets = ts
    /\ semaphore = sem
    /\ pc = [t \in ts |-> "acquire"]
    /\ reconnect_attempt = [t \in ts |-> 0]
    /\ backoff = [t \in ts |-> INITIAL_BACKOFF * TicksPerSecond]
    /\ permit = [t \in ts |-> FALSE]
    /\ websocket = [t \in ts |-> "None"]
    /\ exc = [t \in ts |-> "None"]
    /\ process = [t \in ts |-> <<>>]
    /\ alive = [t \in ts |-> {}]
    /\ ended = [t \in ts |-> "None"]
    /\ ws_pump = [t \in ts |-> "idle"]
    /\ out_pump = [t \in ts |-> "idle"]
    /\ err_pump = [t \in ts |-> "idle"]
    /\ message = [t \in ts |-> <<>>]
    /\ data = [t \in ts |-> <<>>]
    /\ peer_sent = [t \in ts |-> <<>>]
    /\ nrecv = [t \in ts |-> 0]
    /\ stdin = [t \in ts |-> <<>>]
    /\ stdout = [t \in ts |-> <<>>]
    /\ stderr = [t \in ts |-> <<>>]
    /\ nerr = [t \in ts |-> 0]
    /\ terminal = <<>>
    /\ nread = [t \in ts |-> 0]
    /\ ws_out = [t \in ts |-> <<>>]
    /\ close_code = [t \in ts |-> 0]
    /\ status_file = EmptyStatus
    /\ writes = [t \in ts |-> <<>>]
    /\ probes = [t \in ts |-> 0]
    /\ dialed = [t \in ts |-> 0]
    /\ spawned = [t \in ts |-> 0]
    /\ web_data = <<>>
    /\ environ = ProcessEnv
    /\ calls = [s \in Servers(ResolveTargets) |-> <<>>]
    /\ config_file = InitialConfigFile
    /\ response = NoResponse
    /\ pid_file = <<>>
    /\ web_pid_file = <<>>
    /\ running = {}
    /\ service_pids = {}
    /\ next_pid = 1
    /\ last = NoCommand
    /\ task_counter = 1
    /\ task_status = [i \in TaskIds |-> "none"]
    /\ delay = [i \in TaskIds |-> 0]
    /\ creator = [i \in TaskIds |-> "none"]
    /\ timer = [i \in TaskIds |-> "none"]
    /\ audio_lock = 0
    /\ cancel_result = [i \in TaskIds |-> "none"]
    /\ monitor_loops = 0
    /\ monitors = [name \in WebEndpointNames |-> 0]

\* _main has created its tasks and awaits them (line 1374)
MainDone ==
    /\ endpoints_cfg = <<>>
    /\ main_env = [connect_all_flag |-> "None", MCP_CONNECT_ALL |-> FALSE,
                   MCP_ENDPOINT |-> Uri, MCP_CONNECT_BATCH_SIZE |-> 1]
    /\ main_pc = "gather"
    /\ pending = <<>>
    /\ tasks = <<>>
    /\ batch_start = 0
    /\ burst = 0

\* the supervisors of the targets ts run, with the configuration _main found
InitFor(ts, sem) ==
    /\ InitBridges(ts, sem)
    /\ MainDone
    /\ config = [s \in Servers(ts) |-> InitialEntry(s)]

\* _main without argument: the supervisors share asyncio.Semaphore(MAX_CONCURRENT_CONNECTIONS)
Init == InitFor(SharedTargets, <<MAX_CONCURRENT_CONNECTIONS>>)
\* _main with a script path: connect_with_retry(endpoint_url_to_use, target_arg)
InitScript == InitFor({ScriptTarget}, <<>>)
InitTraffic == InitFor({TrafficTarget}, <<>>)
\* _main without argument and connect_all_endpoints set, the semaphore at its default
InitPairs == InitFor(PairTargets, <<DEFAULT_CONCURRENT_CONNECTIONS>>)
\* _main without argument and without enabled endpoint, MCP_ENDPOINT set:
\* connect_with_retry(endpoint_url, t) for every enabled server (lines 1326-1331)
InitFallback == InitFor(FallbackTargets, <<>>)
\* _main without argument, one enabled server, the semaphore at its default
InitStatus == InitFor({StatusTarget}, <<DEFAULT_CONCURRENT_CONNECTIONS>>)

\* the environment may still make target t's attempt fail
MayFail(t) == reconnect_attempt[t] < FailureCap(t)

\* the environment may make target t's attempt fail in the way kind
Fails(t, kind) == MayFail(t) /\ kind \in FailureKinds(t)

\* the environment may make the Active session of target t fail in the way
\* kind: for every target but the one whose status is followed, a session
\* lasts longer than the tool-discovery probe that was started with it
FailsActive(t, kind) == Fails(t, kind) /\ (t = StatusTarget \/ probes[t] = 0)

\* the endpoint of target t accepts a connection in this attempt
EndpointUp(t) == reconnect_attempt[t] < UpAttempts(t) \/ ~MayFail(t)

\* the subprocess of t's attempt is running
ProcAlive(t) == process[t] # <<>> /\ process[t][1] \in alive[t]

\* a pump of t raises e: gather keeps the first exception of its children
Raised(t, e) == IF pc[t] = "active" /\ exc[t] = "None" THEN [exc EXCEPT ![t] = e] ELSE exc

----------------------------------------------------------------------------
(* connect_with_retry (lines 216-245). *)

\* lines 227-231: await semaphore.acquire(), then connect_to_server is called
\* and websockets.connect(uri) starts
semaphore_acquire(t) ==
    /\ pc[t] = "acquire"
    /\ ~Locked(semaphore)
    /\ semaphore' = Acquired(semaphore)
    /\ permit' = [permit EXCEPT ![t] = semaphore # <<>>]
    /\ pc' = [pc EXCEPT ![t] = "dial"]
    /\ UNCHANGED <<targets, start_vars, stderr_vars, reconnect_attempt, backoff, exc, session_vars,
                   pump_vars, stream_vars, close_code, config, report_vars>>

\* lines 232-245: the exception of connect_to_server reaches connect_with_retry:
\* finally semaphore.release(); except Exception: reconnect_attempt += 1, the
\* new backoff; next iteration: reconnect_attempt > 0, so asyncio.sleep(backoff).
\* The session of the failed attempt is gone: its WebSocket is closed and its
\* subprocess has ended, so the pumps it leaves behind can only end; they and
\* the streams of that session are left out from here on (the next call of
\* connect_to_server starts with process = None, line 249).
\* Had connect_to_server returned, the try block would end without the except
\* clause and the loop would go on with reconnect_attempt and backoff as they
\* were (line 221: it sleeps only if reconnect_attempt > 0).
connect_with_retry_except(t) ==
    /\ pc[t] \in {"raised", "returned"}
    /\ semaphore' = IF permit[t] THEN Released(semaphore) ELSE semaphore
    /\ permit' = [permit EXCEPT ![t] = FALSE]
    /\ IF pc[t] = "raised"
       THEN /\ reconnect_attempt' = [reconnect_attempt EXCEPT ![t] = @ + 1]
            /\ \E jitter \in JitterDrawn(t, Doubled(backoff[t])) :
                  backoff' = [backoff EXCEPT ![t] = NextBackoff(@, jitter)]
            /\ pc' = [pc EXCEPT ![t] = "sleep"]
       ELSE /\ UNCHANGED <<reconnect_attempt, backoff>>
            /\ pc' = [pc EXCEPT ![t] = IF reconnect_attempt[t] > 0 THEN "sleep"
                                        ELSE "acquire"]
    /\ exc' = [exc EXCEPT ![t] = "None"]
    /\ websocket' = [websocket EXCEPT ![t] = "None"]
    /\ process' = [process EXCEPT ![t] = <<>>]
    /\ ended' = [ended EXCEPT ![t] = "None"]
    /\ ws_pump' = [ws_pump EXCEPT ![t] = "idle"]
    /\ out_pump' = [out_pump EXCEPT ![t] = "idle"]
    /\ err_pump' = [err_pump EXCEPT ![t] = "idle"]
    /\ message' = [message EXCEPT ![t] = <<>>]
    /\ data' = [data EXCEPT ![t] = <<>>]
    /\ peer_sent' = [peer_sent EXCEPT ![t] = <<>>]
    /\ nrecv' = [nrecv EXCEPT ![t] = 0]
    /\ stdin' = [stdin EXCEPT ![t] = <<>>]
    /\ stdout' = [stdout EXCEPT ![t] = <<>>]
    /\ nread' = [nread EXCEPT ![t] = 0]
    /\ ws_out' = [ws_out EXCEPT ![t] = <<>>]
    /\ close_code' = [close_code EXCEPT ![t] = 0]
    /\ stderr' = [stderr EXCEPT ![t] = <<>>]
    /\ nerr' = [nerr EXCEPT ![t] = 0]
    /\ UNCHANGED <<targets, start_vars, terminal, alive, config, report_vars>>

\* line 224: asyncio.sleep(backoff) is over
sleep_done(t) ==
    /\ pc[t] = "sleep"
    /\ pc' = [pc EXCEPT ![t] = "acquire"]
    /\ UNCHANGED <<targets, start_vars, stderr_vars, semaphore, reconnect_attempt, backoff, permit, exc,
                   session_vars, pump_vars, stream_vars, close_code, config,
                   report_vars>>

----------------------------------------------------------------------------
(* connect_to_server (lines 247-326). *)

\* the error text of the except clauses for the exception of t's attempt:
\* lines 302-305 for ConnectionClosed, line 312 for any other exception
AttemptError(t) ==
    IF exc[t] = "ConnectionClosed" THEN ClosedError(close_code[t])
    ELSE ConnectionError(exc[t])

\* an except clause that reports to the endpoint record only
except_clause_without_status(file, t, error) ==
    update_endpoint_status(file, endpoint_name(t), "False", error)

\* lines 301-315: the except clause that catches the exception of target t
except_clause(file, t, error) ==
    update_endpoint_status(update_tool_status(file, t, "error", error, <<>>),
                           endpoint_name(t), "False", error)

\* a finally block that writes the stopped status whether or not a subprocess
\* was started
finally_clause_unconditional(file, t, proc) ==
    update_tool_status(file, t, "stopped", NoError, <<>>)

\* lines 318-326: the status write of the finally block
finally_clause(file, t, proc) ==
    IF proc # <<>> THEN update_tool_status(file, t, "stopped", NoError, <<>>) ELSE file

\* line 252: websockets.connect(uri) succeeds; line 259: update_endpoint_status
websockets_connect(t) ==
    /\ pc[t] = "dial"
    /\ EndpointUp(t)
    /\ pc' = [pc EXCEPT ![t] = "connected"]
    /\ websocket' = [websocket EXCEPT ![t] = "OPEN"]
    /\ dialed' = [dialed EXCEPT ![t] = @ + 1]
    /\ status_file' = update_endpoint_status(status_file, endpoint_name(t), "True", NoError)
    /\ UNCHANGED <<targets, start_vars, stderr_vars, semaphore, reconnect_attempt, backoff, permit, exc,
                   process, alive, ended, pump_vars, stream_vars, close_code,
                   config, writes, probes, spawned, web_data>>

\* line 252: websockets.connect(uri) raises; except Exception (lines 310-315)
\* writes the error status and re-raises, and finally finds process None
websockets_connect_fails(t) ==
    /\ pc[t] = "dial"
    /\ Fails(t, "dial")
    /\ exc' = [exc EXCEPT ![t] = "ConnectError"]
    /\ pc' = [pc EXCEPT ![t] = "raised"]
    /\ status_file' = except_clause(status_file, t, ConnectionError("ConnectError"))
    /\ writes' = [writes EXCEPT ![t] = Append(@, "error")]
    /\ UNCHANGED <<targets, start_vars, stderr_vars, semaphore, reconnect_attempt, backoff, permit,
                   session_vars, pump_vars, stream_vars, close_code, config,
                   probes, dialed, spawned, web_data>>

\* the attempt of t stands between the connect and the launch
Connected_or_dialing(t) == pc[t] \in {"connected", "dial"}

\* lines 252-262: the body of `async with websockets.connect(uri)` is entered
\* once the connect has succeeded
Connected(t) == pc[t] = "connected"

\* lines 262-300: build_server_command(target), subprocess.Popen(...), the
\* running status, the probe task, then asyncio.gather starts the three
\* pumps. Either of the first two may raise, and then the `async with` block
\* is left with the exception.
launch(t) ==
    /\ Connected(t)
    /\ LET resolved == build_server_command(t, config) IN
       \E outcome \in (IF resolved.ok THEN {"ok"} ELSE {})
                     \cup (IF Fails(t, "spawn") /\ resolved.ok THEN {"SpawnFailed"} ELSE {})
                     \cup (IF Fails(t, "config") /\ ~resolved.ok THEN {"RuntimeError"} ELSE {}) :
        IF outcome = "ok"
        THEN /\ process' = [process EXCEPT ![t] = <<reconnect_attempt[t], resolved.cmd>>]
             /\ alive' = [alive EXCEPT ![t] = @ \cup {reconnect_attempt[t]}]
             /\ spawned' = [spawned EXCEPT ![t] = @ + 1]
             /\ status_file' = update_tool_status(status_file, t, "running", NoError, <<>>)
             /\ writes' = [writes EXCEPT ![t] = Append(@, "running")]
             /\ probes' = [probes EXCEPT ![t] = @ + 1]
             /\ ws_pump' = [ws_pump EXCEPT ![t] = "recv"]
             /\ out_pump' = [out_pump EXCEPT ![t] = "read"]
             /\ err_pump' = [err_pump EXCEPT ![t] = "read"]
             /\ pc' = [pc EXCEPT ![t] = "active"]
             /\ UNCHANGED <<exc, websocket>>
        ELSE /\ exc' = [exc EXCEPT ![t] = outcome]
             /\ websocket' = [websocket EXCEPT ![t] = "CLOSED"]
             /\ pc' = [pc EXCEPT ![t] = "closing"]
             /\ UNCHANGED <<process, alive, ws_pump, out_pump, err_pump,
                            spawned, status_file, writes, probes>>
    /\ UNCHANGED <<targets, start_vars, stderr_vars, semaphore, reconnect_attempt, backoff, permit, ended,
                   message, data, stream_vars, close_code, config, dialed, web_data>>

\* lines 296-300: a pump has raised; gather raises its exception at once and
\* leaves the other pumps running. gather returns normally only when all
\* three pumps have returned. Either way the `async with` block is left,
\* which starts closing the WebSocket
gather_raises(t) ==
    /\ pc[t] = "active"
    /\ \/ exc[t] # "None"
       \/ ws_pump[t] = "done" /\ out_pump[t] = "done" /\ err_pump[t] = "done"
    /\ websocket' = [websocket EXCEPT ![t] = "CLOSED"]
    /\ pc' = [pc EXCEPT ![t] = "closing"]
    /\ UNCHANGED <<targets, start_vars, stderr_vars, semaphore, reconnect_attempt, backoff, permit, exc,
                   process, alive, ended, pump_vars, stream_vars, close_code,
                   config, report_vars>>

\* lines 301-326: the WebSocket is closed; the except clause writes the error
\* status and re-raises; finally, if process: terminate, wait 5 s, kill, and
\* the stopped status. Then the exception leaves connect_to_server. With no
\* exception in flight (gather has returned) no except clause runs and the
\* function returns None after the finally clause.
connect_to_server_finally(t) ==
    /\ pc[t] = "closing"
    /\ \E graceful \in BOOLEAN :
        IF process[t] # <<>>
        THEN /\ alive' = [alive EXCEPT ![t] = StillAlive(@, process[t][1], graceful)]
             /\ ended' = [ended EXCEPT ![t] = EndedBy(alive[t], process[t][1], @, graceful)]
        ELSE UNCHANGED <<alive, ended>>
    /\ status_file' = finally_clause(IF exc[t] = "None" THEN status_file
                                     ELSE except_clause(status_file, t, AttemptError(t)),
                                     t, process[t])
    /\ writes' = [writes EXCEPT ![t] =
                     (IF exc[t] = "None" THEN @ ELSE Append(@, "error"))
                     \o (IF process[t] # <<>> THEN <<"stopped">> ELSE <<>>)]
    /\ pc' = [pc EXCEPT ![t] = IF exc[t] = "None" THEN "returned" ELSE "raised"]
    /\ UNCHANGED <<targets, start_vars, stderr_vars, semaphore, reconnect_attempt, backoff, permit, exc,
                   websocket, process, pump_vars, stream_vars, close_code, config,
                   probes, dialed, spawned, web_data>>

----------------------------------------------------------------------------
(* The endpoint, the subprocess, the configuration file and the heartbeat  *)
(* monitor of mcp_web.py: the environment of a bridge.                     *)

\* the endpoint sends message m on the open connection
peer_send(t, m) ==
    /\ websocket[t] = "OPEN"
    /\ m.kind = "bytes" /\ ~Utf8Valid(m.raw) => FailsActive(t, "garbage")
    /\ Len(peer_sent[t]) < MessageCap(t)
    /\ peer_sent' = [peer_sent EXCEPT ![t] = Append(@, m)]
    /\ UNCHANGED <<targets, start_vars, stderr_vars, semaphore, supervisor_vars, session_vars, pump_vars,
                   nrecv, stdin, stdout, nread, ws_out, close_code, config,
                   report_vars>>

\* the endpoint closes the connection with close code c
peer_close(t, c) ==
    /\ websocket[t] = "OPEN"
    /\ FailsActive(t, "close")
    /\ websocket' = [websocket EXCEPT ![t] = "CLOSED"]
    /\ close_code' = [close_code EXCEPT ![t] = c]
    /\ UNCHANGED <<targets, start_vars, stderr_vars, semaphore, supervisor_vars, process, alive, ended,
                   pump_vars, stream_vars, config, report_vars>>

\* the subprocess prints line l on its stdout
process_prints(t, l) ==
    /\ ProcAlive(t)
    /\ Len(stdout[t]) < LineCap(t)
    /\ stdout' = [stdout EXCEPT ![t] = Append(@, l)]
    /\ UNCHANGED <<targets, start_vars, stderr_vars, semaphore, supervisor_vars, session_vars, pump_vars,
                   peer_sent, nrecv, stdin, nread, ws_out, close_code, config,
                   report_vars>>

\* the subprocess prints line l on its stderr (the subprocess of the first
\* attempt does)
process_prints_stderr(t, l) ==
    /\ ProcAlive(t)
    /\ Len(stderr[t]) < ErrLineCap(t)
    /\ reconnect_attempt[t] = 0
    /\ stderr' = [stderr EXCEPT ![t] = Append(@, l)]
    /\ UNCHANGED <<targets, start_vars, nerr, terminal, semaphore, supervisor_vars,
                   session_vars, pump_vars, stream_vars, close_code, config, report_vars>>

\* the subprocess ends by itself: its stdout and stderr reach end of file
process_exits(t) ==
    /\ ProcAlive(t)
    /\ FailsActive(t, "exit")
    /\ alive' = [alive EXCEPT ![t] = @ \ {process[t][1]}]
    /\ ended' = [ended EXCEPT ![t] = "exited"]
    /\ UNCHANGED <<targets, start_vars, stderr_vars, semaphore, supervisor_vars, websocket, process,
                   pump_vars, stream_vars, close_code, config, report_vars>>

\* mcp_config.json is edited (mcp_web.py saves it, lines 182-199, or by
\* hand): the entry of server s becomes e. The file is
\* edited while a supervisor of s stands between two attempts (it sleeps or
\* waits for the semaphore) or while s has no supervisor, and a disabled entry
\* is enabled again at any time; an entry that makes the launch fail is
\* written only while the failures of the targets of s are not used up.
config_edit(s, e) ==
    /\ s \in DOMAIN config
    /\ e # config[s]
    /\ \/ config[s].disabled /\ ~e.disabled
       \/ \E t \in targets : base_name(t) = s /\ pc[t] \in {"sleep", "acquire"}
       \/ \A t \in targets : base_name(t) # s
    /\ e.disabled => \A t \in targets : base_name(t) = s => Fails(t, "config")
    /\ config' = [config EXCEPT ![s] = e]
    /\ UNCHANGED <<targets, start_vars, stderr_vars, semaphore, supervisor_vars, session_vars, pump_vars,
                   stream_vars, close_code, report_vars>>

\* mcp_web.py line 80: update_status starts with status = read_status()
update_status_read ==
    /\ web_data = <<>>
    /\ web_data' = <<status_file>>
    /\ UNCHANGED <<targets, start_vars, stderr_vars, semaphore, supervisor_vars, session_vars, pump_vars,
                   stream_vars, close_code, config, status_file, writes, probes,
                   dialed, spawned>>

\* mcp_web.py lines 81-88: the heartbeat result for endpoint name is merged
\* into what was read and the whole content is written back
update_status_write(name, connected) ==
    /\ web_data # <<>>
    /\ status_file' = update_status(web_data[1], name, connected, NoError)
    /\ web_data' = <<>>
    /\ UNCHANGED <<targets, start_vars, stderr_vars, semaphore, supervisor_vars, session_vars, pump_vars,
                   stream_vars, close_code, config, writes, probes, dialed, spawned>>

----------------------------------------------------------------------------
(* get_tools_delayed (lines 278-293). *)

\* lines 279-290: the sleep is over, the probe has run and the running status
\* is written with the tools it reported (none when it failed)
get_tools_delayed(t, outcome) ==
    /\ probes[t] > 0
    /\ probes' = [probes EXCEPT ![t] = @ - 1]
    /\ status_file' = update_tool_status(status_file, t, "running", NoError,
                                         get_tools_from_server_async(outcome))
    /\ exc' = IF get_tools_delayed_raises(outcome) = "None" THEN exc
              ELSE Raised(t, get_tools_delayed_raises(outcome))
    /\ UNCHANGED <<targets, start_vars, stderr_vars, semaphore, pc, reconnect_attempt, backoff, permit,
                   session_vars, pump_vars, stream_vars, close_code, config,
                   writes, dialed, spawned, web_data>>

----------------------------------------------------------------------------
(* pipe_websocket_to_process (lines 328-353). *)

\* what `async for message in websocket` would do on a closed connection: the
\* iteration ends without an exception after a normal closure (code 1000)
recv_closed_as_iterator(code) == IF code = 1000 THEN "None" ELSE "ConnectionClosed"

\* lines 332-333: `while True: message = await websocket.recv()`. On a closed
\* connection recv raises ConnectionClosed (ConnectionClosedOK for code 1000,
\* a subclass), whatever the close code; the loop has no other exit
recv_closed(code) == "ConnectionClosed"

\* line 333: message = await websocket.recv(). recv hands out the messages
\* that arrived before it raises ConnectionClosed for a closed connection;
\* the exception is re-raised (line 349).
websocket_recv(t) ==
    /\ ws_pump[t] = "recv"
    /\ nrecv[t] < Len(peer_sent[t]) \/ websocket[t] = "CLOSED"
    /\ IF nrecv[t] < Len(peer_sent[t])
       THEN /\ message' = [message EXCEPT ![t] = <<peer_sent[t][nrecv[t] + 1]>>]
            /\ nrecv' = [nrecv EXCEPT ![t] = @ + 1]
            /\ ws_pump' = [ws_pump EXCEPT ![t] = "write"]
            /\ UNCHANGED exc
       ELSE /\ IF recv_closed(close_code[t]) = "None"
               THEN /\ ws_pump' = [ws_pump EXCEPT ![t] = "done"]
                    /\ UNCHANGED exc
               ELSE /\ ws_pump' = [ws_pump EXCEPT ![t] = "raised"]
                    /\ exc' = Raised(t, recv_closed(close_code[t]))
            /\ UNCHANGED <<message, nrecv>>
    /\ UNCHANGED <<targets, start_vars, stderr_vars, semaphore, pc, reconnect_attempt, backoff, permit,
                   session_vars, out_pump, err_pump, data,
                   peer_sent, stdin, stdout, nread, ws_out, close_code, config,
                   report_vars>>

\* lines 337-340: decode a bytes message, process.stdin.write(message + '\n'),
\* process.stdin.flush(). decode raises for invalid UTF-8 and the write raises
\* BrokenPipeError once the subprocess has ended; both are re-raised (line 349).
stdin_write(t) ==
    /\ ws_pump[t] = "write"
    /\ LET m == message[t][1] IN
       IF m.kind = "bytes" /\ ~Utf8Valid(m.raw)
       THEN /\ ws_pump' = [ws_pump EXCEPT ![t] = "raised"]
            /\ exc' = Raised(t, "UnicodeDecodeError")
            /\ UNCHANGED stdin
       ELSE IF ~ProcAlive(t)
       THEN /\ ws_pump' = [ws_pump EXCEPT ![t] = "raised"]
            /\ exc' = Raised(t, "BrokenPipeError")
            /\ UNCHANGED stdin
       ELSE /\ stdin' = [stdin EXCEPT ![t] = Append(@, StdinText(m))]
            /\ ws_pump' = [ws_pump EXCEPT ![t] = "recv"]
            /\ UNCHANGED exc
    /\ UNCHANGED <<targets, start_vars, stderr_vars, semaphore, pc, reconnect_attempt, backoff, permit,
                   session_vars, out_pump, err_pump, message, data,
                   peer_sent, nrecv, stdout, nread, ws_out, close_code, config,
                   report_vars>>

----------------------------------------------------------------------------
(* pipe_process_to_websocket (lines 355-378). *)

\* lines 360-364: data = await asyncio.to_thread(process.stdout.readline);
\* an empty read (end of file: the subprocess has ended) breaks the loop
stdout_readline(t) ==
    /\ out_pump[t] = "read"
    /\ nread[t] < Len(stdout[t]) \/ ~ProcAlive(t)
    /\ IF nread[t] < Len(stdout[t])
       THEN /\ data' = [data EXCEPT ![t] = <<stdout[t][nread[t] + 1]>>]
            /\ nread' = [nread EXCEPT ![t] = @ + 1]
            /\ out_pump' = [out_pump EXCEPT ![t] = "send"]
       ELSE /\ out_pump' = [out_pump EXCEPT ![t] = "done"]
            /\ UNCHANGED <<data, nread>>
    /\ UNCHANGED <<targets, start_vars, stderr_vars, semaphore, supervisor_vars, session_vars, ws_pump,
                   err_pump, message, peer_sent, nrecv, stdin, stdout, ws_out,
                   close_code, config, report_vars>>

\* line 369: await websocket.send(data); on a closed connection send raises
\* ConnectionClosed, which is re-raised (line 378)
websocket_send(t) ==
    /\ out_pump[t] = "send"
    /\ IF websocket[t] = "OPEN"
       THEN /\ ws_out' = [ws_out EXCEPT ![t] = Append(@, Sent(data[t][1]))]
            /\ out_pump' = [out_pump EXCEPT ![t] = "read"]
            /\ UNCHANGED exc
       ELSE /\ out_pump' = [out_pump EXCEPT ![t] = "raised"]
            /\ exc' = Raised(t, "ConnectionClosed")
            /\ UNCHANGED ws_out
    /\ UNCHANGED <<targets, start_vars, stderr_vars, semaphore, pc, reconnect_attempt, backoff, permit,
                   session_vars, ws_pump, err_pump, message, data,
                   peer_sent, nrecv, stdin, stdout, nread, close_code, config,
                   report_vars>>

----------------------------------------------------------------------------
(* pipe_process_stderr_to_terminal (lines 380-396). *)

\* what a line read from stderr adds to the messages sent on the WebSocket,
\* were it forwarded like a line of stdout
stderr_to_websocket_forwarded(sent, line) == Append(sent, Sent(line))

\* pipe_process_stderr_to_terminal has the process and the target only: what
\* it reads is not sent on the WebSocket
stderr_to_websocket(sent, line) == sent

\* lines 385-393: data = await asyncio.to_thread(process.stderr.readline); a
\* line is written to sys.stderr and flushed, an empty read breaks the loop
stderr_readline(t) ==
    /\ err_pump[t] = "read"
    /\ nerr[t] < Len(stderr[t]) \/ ~ProcAlive(t)
    /\ IF nerr[t] < Len(stderr[t])
       THEN /\ terminal' = Append(terminal, stderr[t][nerr[t] + 1])
            /\ ws_out' = [ws_out EXCEPT ![t] = stderr_to_websocket(@, stderr[t][nerr[t] + 1])]
            /\ nerr' = [nerr EXCEPT ![t] = @ + 1]
            /\ UNCHANGED err_pump
       ELSE /\ err_pump' = [err_pump EXCEPT ![t] = "done"]
            /\ UNCHANGED <<terminal, ws_out, nerr>>
    /\ UNCHANGED <<targets, start_vars, stderr, semaphore, supervisor_vars, session_vars,
                   ws_pump, out_pump, message, data, peer_sent, nrecv, stdin, stdout,
                   nread, close_code, config, report_vars>>

----------------------------------------------------------------------------
\* what the event loop does for target t without any outside event but the
\* outcome of the dial
Progress(t) ==
    \/ semaphore_acquire(t)
    \/ connect_with_retry_except(t)
    \/ sleep_done(t)
    \/ websockets_connect(t)
    \/ websockets_connect_fails(t)
    \/ launch(t)
    \/ gather_raises(t)
    \/ connect_to_server_finally(t)
    \/ websocket_recv(t)
    \/ stdin_write(t)
    \/ stdout_readline(t)
    \/ websocket_send(t)
    \/ stderr_readline(t)
    \/ \E outcome \in ProbeOutcomes(t) : get_tools_delayed(t, outcome)

\* cmd, env = build_server_command(target) (line 262), called on its own;
\* again tells that the call before it, for the same target, found the same
\* configuration
resolve(target) ==
    /\ target \in ResolveTargets
    /\ LET resolved == build_server_command(target, config) IN
        /\ calls' = [calls EXCEPT ![base_name(target)] =
                        <<[cfg |-> config, result |-> resolved,
                           again |-> @ # <<>> /\ @[1].cfg = config]>>]
        /\ environ' = os_environ(environ, resolved)
    /\ UNCHANGED <<targets, stderr_vars, service_vars, main_vars, semaphore, supervisor_vars, session_vars,
                   pump_vars, stream_vars, close_code, config, report_vars>>

----------------------------------------------------------------------------
(* _main without argument (lines 1295-1374): which supervisors it starts.  *)

\* servers_cfg.items() comes in file order
ServerOrder == <<"calc", "math">>

\* an entry of mcpEndpoints
Endpoint(name, enabled, url) == [name |-> name, enabled |-> enabled, url |-> url]
EndpointNames == {"e1", "e2"}
UrlOf(name) == "ws://" \o name

\* what mcpEndpoints may hold: up to two endpoints, enabled or not, with or
\* without url
EndpointVariants(name) == {Endpoint(name, enabled, url) : enabled \in BOOLEAN, url \in {"", UrlOf(name)}}
EndpointConfigs ==
    {<<>>} \cup {<<ep>> : ep \in UNION {EndpointVariants(name) : name \in EndpointNames}}
    \cup {<<a, b>> : a \in EndpointVariants("e1"), b \in EndpointVariants("e2")}
    \cup {<<b, a>> : a \in EndpointVariants("e1"), b \in EndpointVariants("e2")}

\* the flag of the configuration ("None" when no key is there), the
\* environment variables, and the batch size
MainEnvs ==
    [connect_all_flag : {"None", "True", "False"}, MCP_CONNECT_ALL : BOOLEAN,
     MCP_ENDPOINT : {"", Uri}, MCP_CONNECT_BATCH_SIZE : 1 .. MaxBatch]

\* line 1301: the names of the entries that are not disabled
enabled_servers(cfg) ==
    SelectSeq(ServerOrder,
              LAMBDA name : name \in DOMAIN cfg /\ cfg[name].present /\ ~cfg[name].disabled)

\* every endpoint of the file counts
enabled_endpoints_unfiltered(eps) == eps

\* line 1302: the endpoints that are enabled and have a url
enabled_endpoints(eps) == SelectSeq(eps, LAMBDA ep : ep.enabled /\ ep.url # "")

\* lines 1304-1321: the flag of the configuration, else MCP_CONNECT_ALL
MCP_CONNECT_ALL(env) ==
    IF env.connect_all_flag = "None" THEN env.MCP_CONNECT_ALL ELSE env.connect_all_flag = "True"

\* asyncio.create_task(connect_with_retry(uri, target[, semaphore]))
Task(uri, target, sem) == [uri |-> uri, target |-> target, semaphore |-> sem]

\* lines 1358-1363: every server with every endpoint, target f"{server_name}::{ep_name}"
Pairs(servers, eps) ==
    [k \in 1 .. Len(servers) * Len(eps) |->
        LET server_name == servers[((k - 1) \div Len(eps)) + 1]
            ep == eps[((k - 1) % Len(eps)) + 1]
        IN  [uri |-> ep.url, target |-> server_name \o "::" \o ep.name]]

\* everything that is still pending
batch_to_end(pend, i, batch_size) == SubSeq(pend, i + 1, Len(pend))

\* line 1367: batch = pending[i:i+batch_size]
batch(pend, i, batch_size) == SubSeq(pend, i + 1, Min(i + batch_size, Len(pend)))

\* lines 1296-1363: _main reads the configuration and either raises, or
\* creates the tasks of the fallback (no semaphore) or of the single-endpoint
\* mode, or collects the pairs of connect-all mode
main_start ==
    /\ main_pc = "start"
    /\ LET servers == enabled_servers(config)
           eps == enabled_endpoints(endpoints_cfg)
       IN
       IF servers = <<>> THEN
            /\ main_pc' = "raised"
            /\ UNCHANGED <<tasks, pending, burst>>
       ELSE IF eps = <<>> THEN
            IF main_env.MCP_ENDPOINT # ""
            THEN /\ tasks' = [k \in 1 .. Len(servers) |->
                                Task(main_env.MCP_ENDPOINT, servers[k], FALSE)]
                 /\ burst' = Len(servers)
                 /\ main_pc' = "gather"
                 /\ UNCHANGED pending
            ELSE /\ main_pc' = "raised"
                 /\ UNCHANGED <<tasks, pending, burst>>
       ELSE IF ~MCP_CONNECT_ALL(main_env) THEN
            /\ tasks' = [k \in 1 .. Len(servers) |->
                           Task(eps[1].url, servers[k] \o "::" \o eps[1].name, TRUE)]
            /\ burst' = Len(servers)
            /\ main_pc' = "gather"
            /\ UNCHANGED pending
       ELSE /\ pending' = Pairs(servers, eps)
            /\ main_pc' = "schedule"
            /\ UNCHANGED <<tasks, burst>>
    /\ UNCHANGED <<targets, stderr_vars, service_vars, environ, calls, endpoints_cfg, main_env, batch_start,
                   semaphore, supervisor_vars, session_vars, pump_vars, stream_vars,
                   close_code, config, report_vars>>

\* lines 1366-1371: one round of _schedule_in_batches: the tasks of the batch
\* are created, then either the sleep between batches starts or the loop ends
schedule_batch ==
    /\ main_pc = "schedule"
    /\ LET size == main_env.MCP_CONNECT_BATCH_SIZE
           created == batch(pending, batch_start, size)
       IN
       /\ tasks' = tasks \o [k \in 1 .. Len(created) |->
                                 Task(created[k].uri, created[k].target, TRUE)]
       /\ burst' = burst + Len(created)
       /\ main_pc' = IF batch_start + size < Len(pending) THEN "sleep" ELSE "gather"
    /\ UNCHANGED <<targets, stderr_vars, service_vars, environ, calls, endpoints_cfg, main_env, pending, batch_start,
                   semaphore, supervisor_vars, session_vars, pump_vars, stream_vars,
                   close_code, config, report_vars>>

\* line 1371 and the next round of line 1366: the sleep is over, i advances
batch_sleep_done ==
    /\ main_pc = "sleep"
    /\ batch_start' = batch_start + main_env.MCP_CONNECT_BATCH_SIZE
    /\ burst' = 0
    /\ main_pc' = "schedule"
    /\ UNCHANGED <<targets, stderr_vars, service_vars, environ, calls, endpoints_cfg, main_env, pending, tasks,
                   semaphore, supervisor_vars, session_vars, pump_vars, stream_vars,
                   close_code, config, report_vars>>

\* _main starts: any configuration of two servers and up to two endpoints
InitMain ==
    /\ InitBridges({}, <<>>)
    /\ config \in [{"calc", "math"} -> {Absent, Entry("run-v1"), Disabled("run-v1")}]
    /\ endpoints_cfg \in EndpointConfigs
    /\ main_env \in MainEnvs
    /\ main_pc = "start"
    /\ pending = <<>>
    /\ tasks = <<>>
    /\ batch_start = 0
    /\ burst = 0
NextMain == main_start \/ schedule_batch \/ batch_sleep_done
SpecMain == InitMain /\ [][NextMain]_vars

Next ==
    \/ \E t \in targets : semaphore_acquire(t)
    \/ \E t \in targets : connect_with_retry_except(t)
    \/ \E t \in targets : sleep_done(t)
    \/ \E t \in targets : websockets_connect(t)
    \/ \E t \in targets : websockets_connect_fails(t)
    \/ \E t \in targets : launch(t)
    \/ \E t \in targets : gather_raises(t)
    \/ \E t \in targets : connect_to_server_finally(t)
    \/ \E t \in targets : websocket_recv(t)
    \/ \E t \in targets : stdin_write(t)
    \/ \E t \in targets : stdout_readline(t)
    \/ \E t \in targets : websocket_send(t)
    \/ \E t \in targets : stderr_readline(t)
    \/ \E t \in targets : \E m \in Messages(t) : peer_send(t, m)
    \/ \E t \in targets : \E c \in CloseCodes(t) : peer_close(t, c)
    \/ \E t \in targets : \E l \in Lines(t) : process_prints(t, l)
    \/ \E t \in targets : process_exits(t)
    \/ \E t \in targets : \E outcome \in ProbeOutcomes(t) : get_tools_delayed(t, outcome)

----------------------------------------------------------------------------
(* SIGINT: signal_handler (lines 398-401) calls sys.exit(0); the SystemExit *)
(* ends asyncio.run(_main()) (line 1393), which cancels every task and runs *)
(* the loop until all of them are done, then the interpreter exits.         *)

\* the supervisors whose connect_to_server call has launched a subprocess and
\* has not yet run its finally block
BeforeFinally(t) == pc[t] \in {"active", "closing"} /\ process[t] # <<>>

\* update_tool_status(target, "已停止") of the finally blocks of the targets ts
RECURSIVE finally_clauses(_, _)
finally_clauses(file, ts) ==
    IF ts = {} THEN file
    ELSE LET t == CHOOSE x \in ts : TRUE
         IN  finally_clauses(finally_clause(file, t, process[t]), ts \ {t})

\* The interrupt arrives while the event loop waits or between two steps of
\* the tasks. CancelledError is raised in every task where it awaits: it is
\* no Exception, so no except clause of connect_to_server or of
\* connect_with_retry catches it; the `async with` closes the WebSocket, the
\* finally block of connect_to_server terminates (or kills) the subprocess
\* and writes the stopped status, the finally of connect_with_retry releases
\* the permit; the pumps and the probes are cancelled as tasks of their own.
signal_handler ==
    /\ main_pc = "gather"
    /\ targets # {}
    /\ \E graceful \in [targets -> BOOLEAN] :
          /\ alive' = [t \in targets |->
                          IF BeforeFinally(t)
                          THEN StillAlive(alive[t], process[t][1], graceful[t])
                          ELSE alive[t]]
          /\ ended' = [t \in targets |->
                          IF BeforeFinally(t)
                          THEN EndedBy(alive[t], process[t][1], ended[t], graceful[t])
                          ELSE ended[t]]
    /\ status_file' = finally_clauses(status_file, {t \in targets : BeforeFinally(t)})
    /\ writes' = [t \in targets |->
                     IF BeforeFinally(t) THEN Append(writes[t], "stopped") ELSE writes[t]]
    /\ semaphore' = IF semaphore = <<>> THEN semaphore
                    ELSE <<semaphore[1] + Cardinality({t \in targets : permit[t]})>>
    /\ permit' = [t \in targets |-> FALSE]
    /\ websocket' = [t \in targets |-> IF websocket[t] = "OPEN" THEN "CLOSED" ELSE websocket[t]]
    /\ exc' = [t \in targets |-> "CancelledError"]
    /\ pc' = [t \in targets |-> "cancelled"]
    /\ ws_pump' = [t \in targets |-> "idle"]
    /\ out_pump' = [t \in targets |-> "idle"]
    /\ err_pump' = [t \in targets |-> "idle"]
    /\ probes' = [t \in targets |-> 0]
    /\ main_pc' = "exited"
    /\ UNCHANGED <<targets, stderr_vars, service_vars, environ, calls, endpoints_cfg, main_env, pending, tasks,
                   batch_start, burst, reconnect_attempt, backoff, process, message,
                   data, stream_vars, close_code, config, dialed, spawned, web_data>>

\* mcp_pipe.py with subprocesses that print on stderr
NextWithStderr ==
    \/ Next
    \/ \E t \in targets : \E l \in ErrLines(t) : process_prints_stderr(t, l)

\* mcp_pipe.py until it is interrupted
NextWithInterrupt == Next \/ signal_handler

\* mcp_pipe.py next to mcp_web.py, which saves the configuration and whose
\* heartbeat monitor writes the same status file
NextWithWeb ==
    \/ Next
    \/ \E s \in DOMAIN config : \E e \in ConfigEntries(s) : config_edit(s, e)
    \/ update_status_read
    \/ \E name \in MonitoredEndpoints : \E connected \in HeartbeatResults :
          update_status_write(name, connected)

\* build_server_command on its own: no supervisor runs, the entry of "calc"
\* is any of ResolverEntries, and the configuration is edited between calls
InitResolve ==
    /\ InitBridges({}, <<>>)
    /\ MainDone
    /\ \E e \in ResolverEntries :
          config = [s \in Servers(ResolveTargets) |-> IF s = "calc" THEN e ELSE Absent]
NextResolve ==
    \/ \E target \in ResolveTargets : resolve(target)
    \/ \E s \in DOMAIN config : \E e \in ConfigEntries(s) : config_edit(s, e)
SpecResolve == InitResolve /\ [][NextResolve]_vars

----------------------------------------------------------------------------
(* The web API of mcp_pipe.py on mcp_config.json (create_app, lines        *)
(* 1052-1281). Every handler is one request: load_config, the change, and  *)
(* json.dump of the new content.                                           *)

\* del d[k]
Del(d, k) == [x \in DOMAIN d \ {k} |-> d[x]]

\* lines 1304-1317: the policy flag _main finds in the configuration ("None"
\* when none of the three keys is there)
connect_all_flag(cfg_for_flag) ==
    LET Bool(b) == IF b THEN "True" ELSE "False" IN
    IF "connect_all_endpoints" \in DOMAIN cfg_for_flag
    THEN Bool(cfg_for_flag["connect_all_endpoints"])
    ELSE IF "connectAllEndpoints" \in DOMAIN cfg_for_flag
    THEN Bool(cfg_for_flag["connectAllEndpoints"])
    ELSE IF "mcpSettings" \in DOMAIN cfg_for_flag
            /\ "connect_all_endpoints" \in DOMAIN cfg_for_flag["mcpSettings"]
    THEN Bool(cfg_for_flag["mcpSettings"]["connect_all_endpoints"])
    ELSE "None"

\* new_cfg = {'mcpServers': servers, 'mcpEndpoints': cfg.get('mcpEndpoints') or {}}
\* (lines 1172-1175, 1225-1228, 1248-1251, 1269-1272)
new_cfg(servers, cfg) ==
    Put(Put(<<>>, "mcpServers", servers), "mcpEndpoints", Get(cfg, "mcpEndpoints", <<>>))

\* the names, commands and urls the requests carry
ApiNames == {"", "calc", "math"}
ApiTypes == {"", "stdio", "SSE", "grpc"}
ApiCommands == {"", "run-v2"}
ApiUrls == {"", "http://srv"}
\* the bodies of PUT /api/servers/<name>
UpdateBodies ==
    {Put(<<>>, "command", "run-v2"), Put(<<>>, "disabled", TRUE),
     Put(Put(<<>>, "type", "sse"), "url", "http://srv")}
\* the bodies of POST /api/servers/json
IncomingServers ==
    {Put(<<>>, "math", Entry("run-v1")), Put(<<>>, "calc", Entry("run-v2"))}
\* the bodies of POST /api/config: none, the servers alone, and a whole
\* configuration as GET /api/config returned it
PostedConfigs ==
    {<<>>, Put(<<>>, "mcpServers", Put(<<>>, "time", Entry("run-v1"))), InitialConfigFile}

\* lines 1060-1076: POST /api/config keeps mcpServers and mcpEndpoints of the
\* body and writes them as the whole file
api_config_post(body) ==
    /\ config_file' = Put(Put(<<>>, "mcpServers", Get(body, "mcpServers", <<>>)),
                          "mcpEndpoints", Get(body, "mcpEndpoints", <<>>))
    /\ UNCHANGED <<response, pipe_vars, cli_vars, task_vars, monitor_vars>>

\* lines 1148-1181: PUT /api/servers/<name>
api_servers_update(name, body) ==
    /\ LET cfg == config_file
           servers == Get(cfg, "mcpServers", <<>>)
       IN
       IF name = "" \/ name \notin DOMAIN servers
       THEN UNCHANGED config_file
       ELSE LET old == servers[name]
                entry == [old EXCEPT
                            !.type = IF "type" \in DOMAIN body THEN body["type"] ELSE @,
                            !.command = IF "command" \in DOMAIN body THEN body["command"] ELSE @,
                            !.url = IF "url" \in DOMAIN body THEN body["url"] ELSE @,
                            !.disabled = IF "disabled" \in DOMAIN body THEN body["disabled"] ELSE @]
            IN  config_file' = new_cfg(Put(servers, name, entry), cfg)
    /\ UNCHANGED <<response, pipe_vars, cli_vars, task_vars, monitor_vars>>

\* lines 1191-1236: POST /api/servers
api_servers_add(name, type, command, url) ==
    /\ LET cfg == config_file
           servers == Get(cfg, "mcpServers", <<>>)
           added_typ == lower(type)
       IN
       IF name = "" \/ added_typ = "" \/ name \in DOMAIN servers THEN UNCHANGED config_file
       ELSE IF added_typ = "stdio" THEN
            IF command = "" THEN UNCHANGED config_file
            ELSE config_file' =
                    new_cfg(Put(servers, name, ServerEntry(FALSE, added_typ, "", command, "", <<>>)), cfg)
       ELSE IF added_typ \in {"sse", "http", "streamablehttp"} THEN
            IF url = "" THEN UNCHANGED config_file
            ELSE config_file' =
                    new_cfg(Put(servers, name, ServerEntry(FALSE, added_typ, "", "", url, <<>>)), cfg)
       ELSE UNCHANGED config_file
    /\ UNCHANGED <<response, pipe_vars, cli_vars, task_vars, monitor_vars>>

\* lines 1238-1257: POST /api/servers/json, servers.update(incoming)
api_servers_add_json(incoming) ==
    /\ LET cfg == config_file
           servers == Get(cfg, "mcpServers", <<>>)
       IN  config_file' =
              new_cfg([x \in DOMAIN servers \cup DOMAIN incoming |->
                          IF x \in DOMAIN incoming THEN incoming[x] ELSE servers[x]], cfg)
    /\ UNCHANGED <<response, pipe_vars, cli_vars, task_vars, monitor_vars>>

\* lines 1259-1279: DELETE /api/servers/<name>
api_servers_delete(name) ==
    /\ LET cfg == config_file
           servers == Get(cfg, "mcpServers", <<>>)
       IN
       IF name = "" \/ name \notin DOMAIN servers THEN UNCHANGED config_file
       ELSE config_file' = new_cfg(Del(servers, name), cfg)
    /\ UNCHANGED <<response, pipe_vars, cli_vars, task_vars, monitor_vars>>

NextApi ==
    \/ \E body \in PostedConfigs : api_config_post(body)
    \/ \E name \in ApiNames : \E body \in UpdateBodies : api_servers_update(name, body)
    \/ \E name \in ApiNames : \E type \in ApiTypes : \E command \in ApiCommands :
          \E url \in ApiUrls : api_servers_add(name, type, command, url)
    \/ \E incoming \in IncomingServers : api_servers_add_json(incoming)
    \/ \E name \in ApiNames : api_servers_delete(name)
\* no bridge runs; the web API is used
SpecApi == InitFor({}, <<>>) /\ [][NextApi]_vars

----------------------------------------------------------------------------
(* The CLI mcptool.py: start, stop, status (lines 13-149). The options of  *)
(* start (the endpoint written to .env, the server name passed on) do not  *)
(* change what is started or recorded.                                     *)

\* bool(x) of what the two checks return
Truthy(x) == x = "True"

\* psutil.Process(pid) succeeds
ProcessExists(file) == file # <<>> /\ file[1] \in running

\* lines 13-16: is_server_running returns False when the PID file is missing;
\* with the file there the function body ends and the call gives None (the
\* lines that read the file and ask psutil come after the return of
\* start_web_process, lines 46-52, and are never run)
is_server_running == IF pid_file = <<>> THEN "False" ELSE "None"

\* lines 18-28: is_web_running
is_web_running ==
    IF web_pid_file = <<>> THEN "False"
    ELSE IF ProcessExists(web_pid_file) THEN "True" ELSE "False"

\* what the command found: the PID recorded in .mcp_pid and whether that
\* process was alive
Found(command, text, pid) ==
    [command |-> command, message |-> text, pid |-> pid,
     recorded |-> pid_file, live |-> ProcessExists(pid_file)]

\* lines 62-108: start. With the service taken as running it only starts the
\* web process if that is missing (start_web_process, lines 30-45); else it
\* launches mcp_pipe.py, writes its PID to .mcp_pid and starts the web process.
start ==
    /\ next_pid + 1 <= MaxPids
    /\ IF Truthy(is_server_running)
       THEN /\ last' = Found("start", "already running", 0)
            /\ IF ~Truthy(is_web_running)
               THEN /\ running' = running \cup {next_pid}
                    /\ web_pid_file' = <<next_pid>>
                    /\ next_pid' = next_pid + 1
               ELSE UNCHANGED <<running, web_pid_file, next_pid>>
            /\ UNCHANGED <<pid_file, service_pids>>
       ELSE /\ pid_file' = <<next_pid>>
            /\ service_pids' = service_pids \cup {next_pid}
            /\ last' = Found("start", "started", next_pid)
            /\ IF ~Truthy(is_web_running)
               THEN /\ running' = running \cup {next_pid, next_pid + 1}
                    /\ web_pid_file' = <<next_pid + 1>>
                    /\ next_pid' = next_pid + 2
               ELSE /\ running' = running \cup {next_pid}
                    /\ next_pid' = next_pid + 1
                    /\ UNCHANGED web_pid_file
    /\ UNCHANGED <<pipe_vars, api_vars, task_vars, monitor_vars>>

\* lines 116-140: stop. os.kill raises for a process that is gone, and then
\* the PID file stays (line 127); the web process is stopped the same way.
stop ==
    /\ LET kill_service == Truthy(is_server_running) /\ ProcessExists(pid_file)
           kill_web == Truthy(is_web_running)
       IN
       /\ last' = Found("stop",
                        IF ~Truthy(is_server_running) THEN "not running"
                        ELSE IF kill_service THEN "stopped" ELSE "failed", 0)
       /\ pid_file' = IF kill_service THEN <<>> ELSE pid_file
       /\ web_pid_file' = IF kill_web THEN <<>> ELSE web_pid_file
       /\ running' = (running \ (IF kill_service THEN {pid_file[1]} ELSE {}))
                              \ (IF kill_web THEN {web_pid_file[1]} ELSE {})
    /\ UNCHANGED <<service_pids, next_pid, pipe_vars, api_vars, task_vars, monitor_vars>>

\* lines 142-149: status
status ==
    /\ last' = IF Truthy(is_server_running)
               THEN Found("status", "running", pid_file[1])
               ELSE Found("status", "not running", 0)
    /\ UNCHANGED <<pid_file, web_pid_file, running, service_pids, next_pid, pipe_vars, api_vars, task_vars, monitor_vars>>

\* a process ends on its own
process_ends(pid) ==
    /\ pid \in running
    /\ running' = running \ {pid}
    /\ UNCHANGED <<pid_file, web_pid_file, service_pids, next_pid, last, pipe_vars, api_vars, task_vars, monitor_vars>>

NextCli == start \/ stop \/ status \/ \E pid \in 1 .. MaxPids : process_ends(pid)
\* no bridge of this process runs; the CLI is used
SpecCli == InitFor({}, <<>>) /\ [][NextCli]_vars

----------------------------------------------------------------------------
(* xiaozhi_awake.py: TaskManager (lines 43-162). The tools run one after   *)
(* the other on the thread of the MCP server; every task has a Timer       *)
(* thread of its own.                                                      *)

\* the delays of the tasks: 0, and one that outlasts the call of add_task
Delays == {0, 1}

\* how loading and playing the file may go (lines 101-131)
PlayOutcomes == {"ok", "FileNotFoundError", "pygame.error"}

\* no tool is in the middle of add_task
ToolsIdle == \A i \in TaskIds : creator[i] # "started"

\* a lock that is never held
lock_free_always(lock) == TRUE

\* threading.Lock: acquire goes through when the lock is free
lock_free(lock) == lock = 0

\* lines 52-72: add_task up to timer.start(): the task is stored as pending
add_task(delay_seconds) ==
    /\ ToolsIdle
    /\ task_counter <= MaxTasks
    /\ task_counter' = task_counter + 1
    /\ task_status' = [task_status EXCEPT ![task_counter] = "pending"]
    /\ delay' = [delay EXCEPT ![task_counter] = delay_seconds]
    /\ creator' = [creator EXCEPT ![task_counter] = "started"]
    /\ timer' = [timer EXCEPT ![task_counter] = "waiting"]
    /\ UNCHANGED <<audio_lock, cancel_result, pipe_vars, api_vars, cli_vars, monitor_vars>>

\* lines 73-75: self.tasks[task_id]["status"] = "running"; return task_id
add_task_returns(i) ==
    /\ creator[i] = "started"
    /\ task_status' = [task_status EXCEPT ![i] = "running"]
    /\ creator' = [creator EXCEPT ![i] = "returned"]
    /\ UNCHANGED <<task_counter, delay, timer, audio_lock, cancel_result,
                   pipe_vars, api_vars, cli_vars, monitor_vars>>

\* threading.Timer.run: the interval is over and the timer was not cancelled;
\* _execute_task finds the task (lines 79-82) and calls _play_audio, which
\* waits for audio_lock (line 99). An interval of 0 may be over before
\* add_task goes on.
timer_fires(i) ==
    /\ timer[i] = "waiting"
    /\ delay[i] = 0 \/ creator[i] = "returned"
    /\ timer' = [timer EXCEPT ![i] = "want_lock"]
    /\ UNCHANGED <<task_counter, task_status, delay, creator, audio_lock, cancel_result,
                   pipe_vars, api_vars, cli_vars, monitor_vars>>

\* line 99: with audio_lock
lock_acquire(i) ==
    /\ timer[i] = "want_lock"
    /\ lock_free(audio_lock)
    /\ audio_lock' = i
    /\ timer' = [timer EXCEPT ![i] = "locked"]
    /\ UNCHANGED <<task_counter, task_status, delay, creator, cancel_result,
                   pipe_vars, api_vars, cli_vars, monitor_vars>>

\* lines 100-110 and 117-131: the checks of the file, load and play; an
\* exception is logged and raised again, which leaves the with block
play_audio(i, outcome) ==
    /\ timer[i] = "locked"
    /\ IF outcome = "ok"
       THEN /\ timer' = [timer EXCEPT ![i] = "playing"]
            /\ UNCHANGED audio_lock
       ELSE /\ timer' = [timer EXCEPT ![i] = "raising"]
            /\ audio_lock' = IF audio_lock = i THEN 0 ELSE audio_lock
    /\ UNCHANGED <<task_counter, task_status, delay, creator, cancel_result,
                   pipe_vars, api_vars, cli_vars, monitor_vars>>

\* lines 112-115: get_busy() is False, the with block is left
playback_finished(i) ==
    /\ timer[i] = "playing"
    /\ timer' = [timer EXCEPT ![i] = "played"]
    /\ audio_lock' = IF audio_lock = i THEN 0 ELSE audio_lock
    /\ UNCHANGED <<task_counter, task_status, delay, creator, cancel_result,
                   pipe_vars, api_vars, cli_vars, monitor_vars>>

\* lines 89-95: _execute_task sets the status after _play_audio
execute_task_ends(i) ==
    /\ timer[i] \in {"played", "raising"}
    /\ task_status' = [task_status EXCEPT ![i] =
                          IF timer[i] = "played" THEN "completed" ELSE "failed"]
    /\ timer' = [timer EXCEPT ![i] = "done"]
    /\ UNCHANGED <<task_counter, delay, creator, audio_lock, cancel_result,
                   pipe_vars, api_vars, cli_vars, monitor_vars>>

\* lines 152-162: cancel_task. Timer.cancel() stops a timer that still waits
\* and does nothing to one whose function has been called.
cancel_task(i) ==
    /\ ToolsIdle
    /\ IF task_status[i] = "running"
       THEN /\ timer' = [timer EXCEPT ![i] = IF @ = "waiting" THEN "cancelled" ELSE @]
            /\ task_status' = [task_status EXCEPT ![i] = "cancelled"]
            /\ cancel_result' = [cancel_result EXCEPT ![i] = "True"]
       ELSE /\ cancel_result' = [cancel_result EXCEPT ![i] = "False"]
            /\ UNCHANGED <<timer, task_status>>
    /\ UNCHANGED <<task_counter, delay, creator, audio_lock, pipe_vars, api_vars, cli_vars, monitor_vars>>

NextTasks ==
    \/ \E delay_seconds \in Delays : add_task(delay_seconds)
    \/ \E i \in TaskIds : add_task_returns(i)
    \/ \E i \in TaskIds : timer_fires(i)
    \/ \E i \in TaskIds : lock_acquire(i)
    \/ \E i \in TaskIds : \E outcome \in PlayOutcomes : play_audio(i, outcome)
    \/ \E i \in TaskIds : playback_finished(i)
    \/ \E i \in TaskIds : execute_task_ends(i)
    \/ \E i \in TaskIds : cancel_task(i)
\* no bridge runs; the timer tools are used
SpecTasks == InitFor({}, <<>>) /\ [][NextTasks]_vars

----------------------------------------------------------------------------
(* mcp_web.py: import_servers and import_servers_force (lines 1594-1661)   *)
(* on mcp_config.json.                                                     *)

\* the stored servers
StoredServers(file) == Get(file, "mcpServers", <<>>)

\* lines 164-179: load_config of mcp_web.py returns the two sections
web_load_config(file) ==
    Put(Put(<<>>, "mcpServers", Get(file, "mcpServers", <<>>)),
        "mcpEndpoints", Get(file, "mcpEndpoints", <<>>))

\* lines 182-194: save_config writes the two sections
save_config(cfg) ==
    Put(Put(<<>>, "mcpServers", Get(cfg, "mcpServers", <<>>)),
        "mcpEndpoints", Get(cfg, "mcpEndpoints", <<>>))

\* the names of the servers in a request
ImportNames == {"calc", "math", "time"}
\* data['mcpServers'] of a request, in the order of the JSON object: up to
\* MaxImport servers of different names
ImportItems ==
    {items \in UNION {[1 .. n -> ImportNames \X {Entry("run-v2")}] : n \in 0 .. MaxImport} :
        \A i, j \in DOMAIN items : items[i][1] = items[j][1] => i = j}
\* the body of a request: <<>> without the key mcpServers, else <<the items>>
ImportData == {<<>>} \cup {<<items>> : items \in ImportItems}

\* lines 1607-1619: the loop over data['mcpServers'].items(), which changes
\* the loaded dict and stops at the first name that exists
RECURSIVE import_loop(_, _, _)
import_loop(servers, items, imported_count) ==
    IF items = <<>>
    THEN [servers |-> servers, imported_count |-> imported_count, conflict |-> ""]
    ELSE IF Head(items)[1] \notin DOMAIN servers
    THEN import_loop(Put(servers, Head(items)[1], Head(items)[2]), Tail(items),
                     imported_count + 1)
    ELSE [servers |-> servers, imported_count |-> imported_count,
          conflict |-> Head(items)[1]]

\* lines 1641-1646: the loop of import_servers_force
RECURSIVE force_loop(_, _)
force_loop(servers, items) ==
    IF items = <<>> THEN servers
    ELSE force_loop(Put(servers, Head(items)[1], Head(items)[2]), Tail(items))

\* a conflict answered after the servers imported so far were saved
on_conflict_saving(file, loaded) == save_config(loaded)

\* lines 1613-1619: the conflict is answered at once, save_config is not
\* reached, and the changed dict is dropped
on_conflict(file, loaded) == file

\* lines 1594-1632: POST /import-servers
import_servers(body) ==
    /\ IF body = <<>>
       THEN /\ response' = [NoResponse EXCEPT !.handler = "import_servers",
                                              !.status = "error"]
            /\ UNCHANGED config_file
       ELSE LET cfg == web_load_config(config_file)
                result == import_loop(cfg["mcpServers"], body[1], 0)
                loaded == Put(cfg, "mcpServers", result.servers)
            IN  IF result.conflict # ""
                THEN /\ config_file' = on_conflict(config_file, loaded)
                     /\ response' = [handler |-> "import_servers", request |-> body,
                                     status |-> "conflict", imported_count |-> 0,
                                     conflict |-> result.conflict]
                ELSE /\ config_file' = save_config(loaded)
                     /\ response' = [handler |-> "import_servers", request |-> body,
                                     status |-> "success",
                                     imported_count |-> result.imported_count,
                                     conflict |-> ""]
    /\ UNCHANGED <<pipe_vars, cli_vars, task_vars, monitor_vars>>

\* lines 1634-1661: POST /import-servers-force
import_servers_force(body) ==
    /\ IF body = <<>>
       THEN /\ response' = [NoResponse EXCEPT !.handler = "import_servers_force",
                                              !.status = "error"]
            /\ UNCHANGED config_file
       ELSE LET cfg == web_load_config(config_file) IN
            /\ config_file' = save_config(Put(cfg, "mcpServers",
                                              force_loop(cfg["mcpServers"], body[1])))
            /\ response' = [handler |-> "import_servers_force", request |-> body,
                            status |-> "success", imported_count |-> Len(body[1]),
                            conflict |-> ""]
    /\ UNCHANGED <<pipe_vars, cli_vars, task_vars, monitor_vars>>

\* lines 1414-1432: POST /remove-server with the name of a server
remove_server(name) ==
    /\ LET cfg == web_load_config(config_file) IN
       config_file' = IF name \in DOMAIN cfg["mcpServers"]
                      THEN save_config(Put(cfg, "mcpServers", Del(cfg["mcpServers"], name)))
                      ELSE config_file
    /\ response' = [NoResponse EXCEPT !.handler = "remove_server", !.status = "removed"]
    /\ UNCHANGED <<pipe_vars, cli_vars, task_vars, monitor_vars>>

NextImport ==
    \/ \E body \in ImportData : import_servers(body)
    \/ \E body \in ImportData : import_servers_force(body)
    \/ \E name \in ImportNames : remove_server(name)
\* no bridge runs; servers are imported and removed
SpecImport == InitFor({}, <<>>) /\ [][NextImport]_vars

----------------------------------------------------------------------------
(* mcp_web.py: the heartbeat monitors of the endpoints (lines 96-139 and   *)
(* 1558-1575) and the requests that edit mcpEndpoints (lines 1436-1501).   *)

\* line 131: the endpoints with v.get("enabled", True)
web_enabled_endpoints(file) ==
    {name \in DOMAIN Get(file, "mcpEndpoints", <<>>) : file["mcpEndpoints"][name].enabled}

\* lines 127-139: start_endpoint_monitors makes a new event loop, creates one
\* endpoint_heartbeat task per enabled endpoint on it and runs the loop in a
\* new daemon thread; endpoint_heartbeat is `while True` and never ends
start_endpoint_monitors ==
    /\ monitor_loops' = monitor_loops + 1
    /\ monitors' = [name \in WebEndpointNames |->
                       monitors[name] + (IF name \in web_enabled_endpoints(config_file)
                                         THEN 1 ELSE 0)]

\* lines 1667-1681: the application starts its monitors once
start_monitor_threads ==
    /\ monitor_loops = 0
    /\ start_endpoint_monitors
    /\ UNCHANGED <<pipe_vars, api_vars, cli_vars, task_vars>>

\* lines 1558-1575: POST /restart-endpoint-monitors. The loop over
\* endpoint_monitor_threads stops nothing (the global does not exist, and
\* the loop body is `pass`); then start_endpoint_monitors is called
restart_endpoint_monitors ==
    /\ monitor_loops > 0
    /\ monitor_loops <= MaxRestarts
    /\ start_endpoint_monitors
    /\ UNCHANGED <<pipe_vars, api_vars, cli_vars, task_vars>>

\* lines 1456-1479: POST /add-endpoint
add_endpoint(name) ==
    /\ monitor_loops > 0
    /\ LET cfg == web_load_config(config_file) IN
       config_file' =
           IF name \in DOMAIN cfg["mcpEndpoints"] THEN config_file
           ELSE save_config(Put(cfg, "mcpEndpoints",
                                Put(cfg["mcpEndpoints"], name,
                                    [url |-> "ws://" \o name, enabled |-> TRUE])))
    /\ UNCHANGED <<response, pipe_vars, cli_vars, task_vars, monitor_vars>>

\* lines 1482-1501: POST /remove-endpoint
remove_endpoint(name) ==
    /\ monitor_loops > 0
    /\ LET cfg == web_load_config(config_file) IN
       config_file' =
           IF name \in DOMAIN cfg["mcpEndpoints"]
           THEN save_config(Put(cfg, "mcpEndpoints", Del(cfg["mcpEndpoints"], name)))
           ELSE config_file
    /\ UNCHANGED <<response, pipe_vars, cli_vars, task_vars, monitor_vars>>

\* lines 1436-1453: POST /save-endpoints with the endpoints as the page
\* shows them, one of them switched on or off
save_endpoints(name, enabled) ==
    /\ monitor_loops > 0
    /\ LET cfg == web_load_config(config_file) IN
       /\ name \in DOMAIN cfg["mcpEndpoints"]
       /\ config_file' = save_config(Put(cfg, "mcpEndpoints",
                                         [cfg["mcpEndpoints"] EXCEPT ![name].enabled = enabled]))
    /\ UNCHANGED <<response, pipe_vars, cli_vars, task_vars, monitor_vars>>

NextMonitors ==
    \/ start_monitor_threads
    \/ restart_endpoint_monitors
    \/ \E name \in WebEndpointNames : add_endpoint(name)
    \/ \E name \in WebEndpointNames : remove_endpoint(name)
    \/ \E name \in WebEndpointNames : \E enabled \in BOOLEAN : save_endpoints(name, enabled)
\* mcp_web.py starts; endpoints are edited and the monitors restarted
SpecMonitors == InitFor({}, <<>>) /\ [][NextMonitors]_vars

Spec == Init /\ [][Next]_vars
SpecFallback == InitFallback /\ [][Next]_vars
SpecInterrupt == InitFallback /\ [][NextWithInterrupt]_vars
SpecStderr == InitFallback /\ [][NextWithStderr]_vars
SpecScript == InitScript /\ [][Next]_vars
SpecTraffic == InitTraffic /\ [][Next]_vars
SpecPairs == InitPairs /\ [][Next]_vars
SpecStatus == InitStatus /\ [][NextWithWeb]_vars

\* The event loop runs every task that can run, a sleep ends and a dial ends;
\* the endpoint and the subprocess owe nothing.
Fairness == \A t \in AllTargets : WF_vars(t \in targets /\ Progress(t))
FairSpec == Init /\ [][Next]_vars /\ Fairness

----------------------------------------------------------------------------
(* Claims. *)

\* C1: once connect_to_server has raised to the supervisor, no subprocess of
\* the target is running any more, whichever step failed; the subprocess of
\* the attempt, if one was launched, has exited, was terminated or was killed.
C1_NoSubprocessAfterRaise ==
    \A t \in targets :
        pc[t] = "raised" =>
            /\ alive[t] = {}
            /\ process[t] # <<>> => ended[t] \in {"exited", "terminated", "killed"}

\* an attempt that launched a subprocess has raised after the subprocess
\* ignored SIGTERM for the 5 s and was killed
C1_Witness ==
    \E t \in targets :
        pc[t] = "raised" /\ process[t] # <<>> /\ ended[t] = "killed"
        /\ exc[t] = "ConnectionClosed"

\* C2: after every failure of connect_to_server the supervisor increments
\* reconnect_attempt and eventually dials again for the same target.
C2_RetriesForever ==
    \A t \in SharedTargets : \A n \in 0 .. MaxAttemptsShared :
        (pc[t] = "raised" /\ reconnect_attempt[t] = n)
            ~> (pc[t] = "dial" /\ reconnect_attempt[t] = n + 1)

\* the supervisors inside websockets.connect
Dialing == {t \in targets : pc[t] = "dial"}

\* C3: with a semaphore of K permits shared by all supervisors, at most K of
\* them are dialing at any instant.
C3_AtMostKDialing ==
    semaphore # <<>> => Cardinality(Dialing) <= MAX_CONCURRENT_CONNECTIONS

\* K supervisors dial while another one waits for a permit
C3_Witness ==
    /\ Cardinality(Dialing) = MAX_CONCURRENT_CONNECTIONS
    /\ \E t \in targets : pc[t] = "acquire" /\ Locked(semaphore)

\* C4: the permit is held only around the connect phase: a bridge in its
\* Active phase holds no permit.
C4_NoPermitWhileActive ==
    \A t \in targets : pc[t] = "active" => ~permit[t]

C6_BackoffNeverDecreases ==
    [][\A t \in targets : backoff'[t] >= backoff[t]]_vars

\* min(INITIAL_BACKOFF * 2^n, MAX_BACKOFF), in ticks
Base(n) == Min(INITIAL_BACKOFF * TicksPerSecond * 2^n, MAX_BACKOFF * TicksPerSecond)

\* C7: after N consecutive failures the wait lies in [base, base + min(1, base)]
\* with base = min(INITIAL_BACKOFF * 2^N, MAX_BACKOFF).
C7_WaitWithinJitterOfBase ==
    \A t \in targets :
        pc[t] = "sleep" =>
            LET base == Base(reconnect_attempt[t]) IN
            /\ base <= backoff[t]
            /\ backoff[t] <= base + Min(TicksPerSecond, base)

\* the text of message m followed by one newline
Line(m) == (IF m.kind = "str" THEN m.text ELSE Utf8Decode(m.raw)) \o <<"\n">>

\* C8: what was written to the subprocess stdin is, message by message, the
\* text of the messages received from the WebSocket with one newline appended,
\* in their order; at most the message just received is not written yet, and
\* none is when the pump waits in recv.
C8_StdinFollowsWebSocket ==
    \A t \in targets :
        /\ Len(stdin[t]) <= nrecv[t]
        /\ nrecv[t] <= Len(peer_sent[t])
        /\ nrecv[t] - Len(stdin[t]) <= 1
        /\ ws_pump[t] = "recv" => Len(stdin[t]) = nrecv[t]
        /\ \A i \in 1 .. Len(stdin[t]) : stdin[t][i] = Line(peer_sent[t][i])

\* two different messages, the first one bytes, have reached stdin
C8_Witness ==
    \E t \in targets :
        /\ Len(stdin[t]) = 2
        /\ peer_sent[t][1].kind = "bytes"
        /\ stdin[t][1] # stdin[t][2]

\* C9: what was sent on the WebSocket is, line by line, what the subprocess
\* printed, unmodified and in its order; at most the line just read is not
\* sent yet, and none is when the pump waits in readline.
C9_WebSocketFollowsStdout ==
    \A t \in targets :
        /\ Len(ws_out[t]) <= nread[t]
        /\ nread[t] <= Len(stdout[t])
        /\ nread[t] - Len(ws_out[t]) <= 1
        /\ out_pump[t] = "read" => Len(ws_out[t]) = nread[t]
        /\ \A i \in 1 .. Len(ws_out[t]) : ws_out[t][i] = stdout[t][i]

\* two different lines have been sent
C9_Witness ==
    \E t \in targets : Len(ws_out[t]) = 2 /\ ws_out[t][1] # ws_out[t][2]

\* C10: once the outbound pump has reached end of file on the subprocess
\* stdout, the Active phase ends, whatever the endpoint does.
C10_EofEndsActive ==
    \A t \in SharedTargets :
        (pc[t] = "active" /\ out_pump[t] = "done") ~> (pc[t] # "active")

\* C11: at the moment connect_to_server raises to the supervisor, none of the
\* three pumps of that attempt is still running: each has raised, has ended
\* or was never started.
C11_NoPumpRunningAfterRaise ==
    \A t \in targets :
        pc[t] = "raised" =>
            /\ ws_pump[t] \in {"idle", "raised"}
            /\ out_pump[t] \in {"idle", "done", "raised"}
            /\ err_pump[t] \in {"idle", "done"}

\* C12: a target has at most one live bridge session: at most one of its
\* subprocesses runs, it is the one of the current attempt, and when the
\* attempt has raised, and up to the next connect, no subprocess of the target
\* runs and its WebSocket is not open.
C12_OneSessionPerTarget ==
    \A t \in targets :
        /\ Cardinality(alive[t]) <= 1
        /\ alive[t] # {} => process[t] # <<>> /\ alive[t] = {process[t][1]}
        /\ pc[t] \in {"raised", "sleep", "acquire", "dial"} =>
              alive[t] = {} /\ websocket[t] # "OPEN"

\* a supervisor dials again after an attempt that had launched a subprocess
C12_Witness ==
    \E t \in targets :
        pc[t] = "dial" /\ reconnect_attempt[t] >= 1 /\ spawned[t] >= 1

\* C13: a subprocess is launched only after the WebSocket connect of the same
\* attempt has succeeded: the subprocesses spawned for a target never
\* outnumber its successful dials, and an attempt whose dial failed has none.
C13_SpawnsAtMostDials ==
    \A t \in targets :
        /\ spawned[t] <= dialed[t]
        /\ process[t] # <<>> => websocket[t] # "None"
        /\ pc[t] = "raised" /\ exc[t] = "ConnectError" => process[t] = <<>>

\* after a failed dial, which launched nothing, the second attempt has dialed
\* and launched the only subprocess
C13_Witness ==
    \E t \in targets :
        /\ pc[t] = "active" /\ reconnect_attempt[t] = 1
        /\ dialed[t] = 1 /\ spawned[t] = 1

\* k times "error"
Errors(k) == [i \in 1 .. k |-> "error"]

\* the status of the record a status write for target t goes to
StatusOf(t) == Get(status_file.tools, status_key(t), NoToolRecord).status

\* C14: as long as every attempt of a target has failed in the dial, its
\* status writes are one `error` per failed attempt and nothing else, and the
\* record shows `error`; when then the first attempt dials and launches, its
\* writes are those k `error` writes followed by one `running` write.
C14_ErrorsThenRunning ==
    \A t \in targets :
        /\ dialed[t] = 0 /\ pc[t] \in {"raised", "sleep", "acquire", "dial"} =>
              LET k == reconnect_attempt[t] + (IF pc[t] = "raised" THEN 1 ELSE 0) IN
              /\ writes[t] = Errors(k)
              /\ k > 0 => StatusOf(t) = "error"
        /\ dialed[t] = 1 /\ spawned[t] = 1 /\ pc[t] = "active" =>
              writes[t] = Errors(reconnect_attempt[t]) \o <<"running">>

\* MaxAttempts failed dials are followed by the attempt that dials and launches
C14_Witness ==
    \E t \in targets :
        /\ pc[t] = "active" /\ dialed[t] = 1
        /\ reconnect_attempt[t] = MaxAttempts
        /\ writes[t] = Errors(MaxAttempts) \o <<"running">>

\* the record a status write for target t goes to
RecordOf(t) == Get(status_file.tools, status_key(t), NoToolRecord)

\* C15: when the endpoint has closed the WebSocket of an Active session with
\* close code c, then once connect_to_server has raised, the status record of
\* the target shows `error` with a message that holds c, and the subprocess
\* has been terminated.
C15_ClosedShowsErrorWithCode ==
    \A t \in targets :
        pc[t] = "raised" /\ exc[t] = "ConnectionClosed" /\ process[t] # <<>> =>
            /\ RecordOf(t).status = "error"
            /\ RecordOf(t).error = ClosedError(close_code[t])
            /\ alive[t] = {}

\* C16: a step of the tool-discovery probe, whether the probe fails, finds no
\* tool or finds tools, leaves the bridge alone: the phase of the attempt, its
\* exception, the subprocess, the three pumps and the retry state of the
\* supervisor are unchanged by it.
C16_ProbeLeavesBridgeAlone ==
    [][(\E t \in targets : probes'[t] < probes[t]) =>
          UNCHANGED <<pc, exc, process, alive, ended, websocket,
                      ws_pump, out_pump, err_pump, reconnect_attempt, backoff>>]_vars

\* the probe of an Active bridge has ended without any tool (its only
\* outcome without a tool is a failure) and the bridge is still Active, its
\* subprocess running
C16_Witness ==
    \E t \in targets :
        /\ pc[t] = "active" /\ exc[t] = "None" /\ ProcAlive(t)
        /\ spawned[t] = 1 /\ probes[t] = 0
        /\ <<>> \notin ToolLists(t)
        /\ RecordOf(t).tools = <<>>

\* C17: a status update is an atomic read-modify-write of the whole record:
\* the write of the heartbeat monitor, which updates an endpoint key, loses no
\* update of another key, so it leaves the tools section as the file holds it
\* at the write.
C17_HeartbeatKeepsTools ==
    [][(web_data # <<>> /\ web_data' = <<>>) =>
          status_file'.tools = status_file.tools]_vars

\* the names of a tool list, and the last entry of a name in it
Names(list) == {list[i].name : i \in DOMAIN list}
LastNamed(list, name) ==
    list[CHOOSE i \in DOMAIN list :
            /\ list[i].name = name
            /\ \A j \in DOMAIN list : list[j].name = name => j <= i]
OnePerName(list) ==
    \A i, j \in DOMAIN list : list[i].name = list[j].name => i = j

\* the tool lists an update may carry: those the probe reports, none, and a
\* list that names a tool twice
ReportedLists ==
    UNION {ToolLists(t) : t \in targets}
        \cup {<<>>, <<Tool("sub", "v1"), Tool("add", "v3"), Tool("sub", "v2")>>}

\* C18: update_tool_status merges tools as a union keyed by tool name: for
\* every stored list and every reported list, the merged list holds exactly one
\* entry per name of either, which is the last reported entry of that name or
\* else the stored one; an update with no tools keeps the stored list, and
\* merging the same list a second time changes nothing.
C18_MergeIsUnionByName ==
    \A s \in DOMAIN status_file.tools :
        LET existing == status_file.tools[s].tools IN
        /\ OnePerName(existing)
        /\ merged_list(existing, <<>>) = existing
        /\ \A new \in ReportedLists :
              LET merged == merged_list(existing, new) IN
              /\ OnePerName(merged)
              /\ Names(merged) = Names(existing) \cup Names(new)
              /\ \A n \in Names(merged) :
                    LastNamed(merged, n) =
                        IF n \in Names(new) THEN LastNamed(new, n)
                        ELSE LastNamed(existing, n)
              /\ merged_list(merged, new) = merged

\* the stored list holds the tool reported first and then again, as it was
\* reported last, next to a tool only the first report named
C18_Witness ==
    \E s \in DOMAIN status_file.tools :
        status_file.tools[s].tools = <<Tool("add", "v1"), Tool("sub", "v1")>>

\* connect_to_server of target t writes a status in this step
StatusWrite(t) == Len(writes'[t]) > Len(writes[t])

\* C19: the target is the key of status reporting: when one pairing of a
\* server writes `error` or `stopped`, the record of another pairing of that
\* server, which is Active and shows `running`, still shows `running`.
C19_WriteKeepsOtherPairing ==
    [][\A t1 \in targets : \A t2 \in targets \ {t1} :
          (/\ StatusWrite(t1)
           /\ writes'[t1][Len(writes'[t1])] \in {"error", "stopped"}
           /\ pc[t2] = "active" /\ pc'[t2] = "active"
           /\ Get(status_file.tools, status_key(t2), NoToolRecord).status = "running")
          => Get(status_file'.tools, status_key(t2), NoToolRecord).status = "running"]_vars

\* the entry of the server of target t in the configuration as it is now
EntryNow(t) == Get(config, base_name(t), Absent)

\* C20: the launch spec is resolved from the configuration as it is at the
\* attempt: an attempt that launches runs the command of the current entry of
\* its server (the script when the server has no entry), and an attempt whose
\* server is disabled by then launches nothing and fails.
C20_LaunchFollowsCurrentConfig ==
    [][\A t \in targets :
          pc[t] = "connected" /\ pc'[t] # "connected" =>
             /\ pc'[t] = "active" =>
                   /\ ~EntryNow(t).disabled
                   /\ process'[t][2] = IF EntryNow(t).present
                                       THEN <<EntryNow(t).command>>
                                       ELSE <<"python", t>>
             /\ EntryNow(t).disabled =>
                   /\ pc'[t] = "closing" /\ exc'[t] = "RuntimeError"
                   /\ process'[t] = <<>> /\ spawned'[t] = spawned[t]]_vars

\* the second attempt has launched the command that an edit wrote after the
\* start, the first attempt having dialed and launched nothing
C20_Witness ==
    \E t \in targets :
        /\ pc[t] = "active" /\ process[t][2] = <<"run-v2">>
        /\ InitialEntry(base_name(t)).command = "run-v1"
        /\ reconnect_attempt[t] >= 1 /\ spawned[t] = 1 /\ dialed[t] = 2

----------------------------------------------------------------------------
(* build_server_command as a function of the target and the configuration. *)

\* the last call of build_server_command for server name s, and its entry
Called(s) == calls[s] # <<>>
CalledEntry(s) == calls[s][1].cfg[s]
Returned(s) == calls[s][1].result.ok

\* the type an entry has when only its field `type` is looked at
TypeField(e) == e.type

\* the type an entry has for build_server_command: `type`, else
\* `transportType`, else stdio, in any letter case
EffectiveType(e) ==
    LET named == IF e.type # "" THEN e.type
                 ELSE IF e.transportType # "" THEN e.transportType ELSE "stdio"
    IN  IF named \in {"stdio", "STDIO"} THEN "stdio"
        ELSE IF named \in {"sse", "SSE"} THEN "sse" ELSE named

\* C21 as stated: build_server_command returns a launch spec exactly when the
\* server part names an entry that is not disabled and whose type is stdio
\* with a command or sse/http/streamablehttp with a url, or names no entry
\* and is an existing path; a disabled entry raises.
C21_ReturnsExactlyWhenTyped ==
    \A s \in DOMAIN calls : Called(s) =>
        LET e == CalledEntry(s) IN
        /\ Returned(s) <=>
              IF e.present
              THEN /\ ~e.disabled
                   /\ \/ TypeField(e) = "stdio" /\ e.command # ""
                      \/ TypeField(e) \in {"sse", "http", "streamablehttp"} /\ e.url # ""
              ELSE s \in Scripts
        /\ e.present /\ e.disabled => ~Returned(s)

\* C21 (amended): the same with the type taken from `type`, else from
\* `transportType`, else stdio, compared in any letter case: build_server_command
\* returns a launch spec exactly when the entry is not disabled and has that
\* type stdio and a command, or that type sse/http/streamablehttp and a url,
\* or the server part names no entry and is an existing path; every other
\* call raises, and a disabled entry raises whatever its other fields are.
C21_ReturnsExactlyWhenResolvable ==
    \A s \in DOMAIN calls : Called(s) =>
        LET e == CalledEntry(s) IN
        /\ Returned(s) <=>
              IF e.present
              THEN /\ ~e.disabled
                   /\ \/ EffectiveType(e) = "stdio" /\ e.command # ""
                      \/ EffectiveType(e) \in {"sse", "http", "streamablehttp"} /\ e.url # ""
              ELSE s \in Scripts
        /\ e.present /\ e.disabled => calls[s][1].result.error = "disabled"

\* an entry without `type` whose transportType is sse was resolved to the
\* proxy command, and a script path to the interpreter running it
C21_Witness ==
    /\ Called("calc") /\ Returned("calc")
    /\ CalledEntry("calc").type = "" /\ CalledEntry("calc").transportType = "sse"
    /\ calls["calc"][1].result.cmd = <<"python", "-m", "mcp_proxy", "http://srv/sse">>
    /\ Called(TrafficTarget) /\ Returned(TrafficTarget)
    /\ Called("nosuch.py") /\ ~Returned("nosuch.py")

----------------------------------------------------------------------------
(* The supervisors _main starts. *)

\* the servers and endpoints of the configuration that are enabled (an
\* endpoint without url cannot be connected to and does not count)
EnabledServerNames == {name \in DOMAIN config : config[name].present /\ ~config[name].disabled}
EnabledEndpointAt == {k \in DOMAIN endpoints_cfg : endpoints_cfg[k].enabled /\ endpoints_cfg[k].url # ""}
ConnectAllMode ==
    MCP_CONNECT_ALL(main_env) /\ EnabledServerNames # {} /\ EnabledEndpointAt # {}
SingleEndpointMode ==
    ~MCP_CONNECT_ALL(main_env) /\ EnabledServerNames # {} /\ EnabledEndpointAt # {}
\* the tasks started for server name on the endpoint at position k of the file
TasksFor(name, k) ==
    {n \in DOMAIN tasks : /\ base_name(tasks[n].target) = name
                          /\ endpoint_name(tasks[n].target) = endpoints_cfg[k].name
                          /\ tasks[n].uri = endpoints_cfg[k].url}

\* C23: in connect-all mode with N enabled servers and M enabled endpoints,
\* once _main awaits its tasks exactly N*M supervisors are started, one for
\* each pair as target server::endpoint on the url of that endpoint, and at
\* no time more than batch_size supervisors were started since the last
\* delay between batches.
C23_OneSupervisorPerPairInBatches ==
    ConnectAllMode =>
       /\ burst <= main_env.MCP_CONNECT_BATCH_SIZE
       /\ main_pc = "gather" =>
             /\ Len(tasks) = Cardinality(EnabledServerNames) * Cardinality(EnabledEndpointAt)
             /\ \A name \in EnabledServerNames : \A k \in EnabledEndpointAt :
                   Cardinality(TasksFor(name, k)) = 1

\* two servers and two endpoints: four supervisors, started in more than one batch
C23_Witness ==
    /\ ConnectAllMode /\ main_pc = "gather"
    /\ Len(tasks) = 4 /\ batch_start > 0
    /\ {tasks[n].target : n \in DOMAIN tasks} = {"calc::e1", "calc::e2", "math::e1", "math::e2"}

\* C24: with connect-all off and an enabled endpoint, once _main awaits its
\* tasks exactly one supervisor per enabled server is started, and all of
\* them are on the first enabled endpoint of the file.
C24_AllServersOnFirstEndpoint ==
    SingleEndpointMode /\ main_pc = "gather" =>
       LET first == CHOOSE k \in EnabledEndpointAt : \A j \in EnabledEndpointAt : k <= j IN
       /\ Len(tasks) = Cardinality(EnabledServerNames)
       /\ \A name \in EnabledServerNames : Cardinality(TasksFor(name, first)) = 1

\* both servers were started on the second endpoint of the file, the first
\* one being disabled
C24_Witness ==
    /\ SingleEndpointMode /\ main_pc = "gather"
    /\ Len(endpoints_cfg) = 2 /\ ~endpoints_cfg[1].enabled /\ endpoints_cfg[1].url # ""
    /\ Len(tasks) = 2
    /\ \A n \in DOMAIN tasks : tasks[n].uri = endpoints_cfg[2].url

\* C25: the concurrency cap holds in every mode of _main: also among the
\* supervisors of the fallback on MCP_ENDPOINT, at most
\* MAX_CONCURRENT_CONNECTIONS are dialing at any instant.
C25_AtMostKDialingInEveryMode ==
    Cardinality(Dialing) <= MAX_CONCURRENT_CONNECTIONS

C27_StderrStaysLocal ==
    /\ \A t \in targets : \A k \in DOMAIN ws_out[t] :
          /\ ws_out[t][k] \notin {Sent(l) : l \in ErrLines(t)}
          /\ k <= Len(stdout[t]) /\ ws_out[t][k] = Sent(stdout[t][k])
    /\ \A j \in DOMAIN terminal : \E t \in targets : terminal[j] \in ErrLines(t)
    /\ \A t \in targets : nerr[t] <= Len(terminal)

\* a subprocess has printed on both streams: its stdout line was sent, its
\* stderr line is on the terminal
C27_Witness ==
    \E t \in targets :
        /\ nerr[t] = 1 /\ terminal # <<>> /\ terminal[Len(terminal)] = stderr[t][1]
        /\ Len(stdout[t]) = 1 /\ ws_out[t] = <<Sent(stdout[t][1])>>

\* the supervisor of t is inside its call of connect_to_server
InCall(t) == pc[t] \in {"dial", "connected", "active", "closing"}

\* C28: connect_to_server never returns normally, it ends by raising, also
\* after a clean EOF of the subprocess's output followed by a normal close of
\* the WebSocket; so the supervisor starts a new attempt only after it has
\* incremented the failure counter and slept.
C28_EndsOnlyByRaising ==
    [][\A t \in targets :
          /\ pc'[t] # "returned" /\ ws_pump'[t] # "done"
          /\ InCall(t) /\ ~InCall(t)' => pc'[t] = "raised" /\ exc'[t] # "None"
          /\ pc[t] = "raised" /\ pc'[t] # "raised" =>
                pc'[t] = "sleep" /\ reconnect_attempt'[t] = reconnect_attempt[t] + 1
          /\ pc[t] # "acquire" /\ pc'[t] = "acquire" =>
                pc[t] = "sleep" /\ reconnect_attempt[t] > 0]_vars

\* the subprocess has ended and both output pumps have returned at EOF, the
\* endpoint has closed the WebSocket normally: the attempt has ended by
\* raising ConnectionClosed
C28_Witness ==
    \E t \in targets :
        /\ pc[t] = "raised" /\ exc[t] = "ConnectionClosed" /\ close_code[t] = 1000
        /\ out_pump[t] = "done" /\ err_pump[t] = "done" /\ ended[t] = "exited"

\* the supervisors between semaphore.acquire() and semaphore.release(): inside
\* connect_to_server, or with its exception on the way through the finally
\* clause of the supervisor
Holders == {t \in targets : InCall(t) \/ pc[t] \in {"raised", "returned"}}

\* C29: the permits of the semaphore are conserved: the free permits plus the
\* supervisors between acquire and release are K; a supervisor holds its
\* permit exactly from the acquire to the end of connect_to_server, whatever
\* the exception, and a supervisor that sleeps its backoff holds none.
C29_PermitsConserved ==
    /\ semaphore # <<>>
    /\ semaphore[1] >= 0
    /\ semaphore[1] + Cardinality(Holders) = MAX_CONCURRENT_CONNECTIONS
    /\ \A t \in targets : permit[t] <=> t \in Holders
    /\ \A t \in targets : pc[t] = "sleep" => ~permit[t]

\* a supervisor sleeps its backoff after a failed attempt, without a permit,
\* while another supervisor holds a permit in its Active phase
C29_Witness ==
    \E t1 \in targets : \E t2 \in targets :
        /\ pc[t1] = "sleep" /\ reconnect_attempt[t1] > 0 /\ ~permit[t1]
        /\ pc[t2] = "active" /\ permit[t2]
        /\ semaphore[1] = MAX_CONCURRENT_CONNECTIONS - 1

\* the status writes of connect_to_server so far are those of whole attempts,
\* `error` for an attempt without subprocess and `running`, `error`, `stopped`
\* for one with a subprocess, and of the attempt under way
RECURSIVE WholeAttempts(_)
WholeAttempts(w) ==
    IF w = <<>> \/ w = <<"running">> THEN TRUE
    ELSE IF w[1] = "error" THEN WholeAttempts(Tail(w))
    ELSE /\ Len(w) >= 3
         /\ SubSeq(w, 1, 3) = <<"running", "error", "stopped">>
         /\ WholeAttempts(SubSeq(w, 4, Len(w)))

\* C30: the status writes of an attempt itself: `running` when the subprocess
\* has been started; when the attempt fails with a subprocess, `error` and
\* then one `stopped`, written when the subprocess has ended and as the
\* exception leaves for the supervisor, the record showing `stopped`; when it
\* fails without a subprocess, `error` alone, the record showing `error`.
C30_RunningErrorStopped ==
    [][\A t \in targets :
          /\ WholeAttempts(writes'[t])
          /\ pc[t] # "raised" /\ pc'[t] = "raised" => StatusWrite(t)
          /\ StatusWrite(t) =>
                \/ /\ writes'[t] = Append(writes[t], "running")
                   /\ process[t] = <<>> /\ process'[t] # <<>> /\ pc'[t] = "active"
                \/ /\ process[t] = <<>>
                   /\ writes'[t] = Append(writes[t], "error")
                   /\ pc'[t] = "raised"
                   /\ Get(status_file'.tools, status_key(t), NoToolRecord).status = "error"
                \/ /\ process[t] # <<>>
                   /\ writes[t][Len(writes[t])] = "running"
                   /\ writes'[t] = writes[t] \o <<"error", "stopped">>
                   /\ process[t][1] \notin alive'[t]
                   /\ pc[t] = "closing" /\ pc'[t] = "raised"
                   /\ Get(status_file'.tools, status_key(t), NoToolRecord).status = "stopped"]_vars

\* an attempt with a subprocess has failed and then one that could not dial
C30_Witness ==
    \E t \in targets :
        /\ pc[t] = "raised" /\ process[t] = <<>>
        /\ writes[t] = <<"running", "error", "stopped", "error">>

\* the last status connect_to_server itself has written for target t
LastWrite(t) == IF writes[t] = <<>> THEN "None" ELSE writes[t][Len(writes[t])]

\* C31: once an attempt has written `stopped`, no `running` status is written
\* for the target until a later attempt launches a subprocess: a step of the
\* deferred tool-discovery probe that runs after the attempt has failed does
\* not leave the record at `running`.
C31_NoRunningAfterStopped ==
    [][\A t \in targets :
          (probes'[t] < probes[t] /\ LastWrite(t) = "stopped") =>
              Get(status_file'.tools, status_key(t), NoToolRecord).status # "running"]_vars

\* the servers that have a tool list in the server_tools map of endpoint name
ServerTools(file, name) == DOMAIN Get(file.endpoints, name, NoEndpointRecord).server_tools

\* C32: update_endpoint_status changes only the connection fields of the
\* record of the endpoint: a tool list that update_tool_status has stored in
\* the server_tools map of an endpoint is still there after every later write
\* of the status file.
C32_EndpointUpdateKeepsServerTools ==
    [][\A name \in DOMAIN status_file.endpoints :
          ServerTools(status_file, name) \subseteq ServerTools(status_file', name)]_vars

\* C33: a request of the web API that edits the configuration changes only
\* the server and endpoint entries: every other top-level setting of the
\* file, and so the connect_all_endpoints flag _main reads, is as before.
C33_ApiKeepsOtherSettings ==
    [][/\ connect_all_flag(config_file') = connect_all_flag(config_file)
       /\ \A k \in DOMAIN config_file \ {"mcpServers", "mcpEndpoints"} :
             k \in DOMAIN config_file' /\ config_file'[k] = config_file[k]]_vars

\* the mcp_pipe.py processes started by `start` that are alive
Services == service_pids \cap running

\* C34: `start` on a running service launches nothing and leaves the PID file:
\* after any sequence of commands at most one service process started by the
\* CLI is alive, and while the recorded one is alive the PID file names it.
C34_AtMostOneService ==
    /\ Cardinality(Services) <= 1
    /\ (last.command = "start" /\ last.live) =>
          /\ last.message = "already running"
          /\ pid_file = last.recorded

\* C35: while the service launched by `start` is alive, `status` reports it
\* as running with the recorded PID, and `stop` removes the PID file and ends
\* the recorded process.
C35_StatusAndStopFollowPidFile ==
    /\ (last.command = "status" /\ last.live) =>
          last.message = "running" /\ <<last.pid>> = last.recorded
    /\ (last.command = "stop" /\ last.live) =>
          /\ last.message = "stopped"
          /\ pid_file = <<>>
          /\ last.recorded[1] \notin running

\* the statuses a task ends in
Terminal == {"completed", "failed", "cancelled"}

\* C36: the status of a task moves only pending -> running -> completed,
\* failed or cancelled, and a terminal status is never changed again.
C36_StatusMovesForwardOnly ==
    [][\A i \in TaskIds :
          task_status'[i] # task_status[i] =>
              \/ task_status[i] = "none" /\ task_status'[i] = "pending"
              \/ task_status[i] = "pending" /\ task_status'[i] = "running"
              \/ task_status[i] = "running" /\ task_status'[i] \in Terminal]_vars

\* C37: once cancel_task has returned True for a task, the playback of the
\* task does not start and its status stays cancelled; a cancel_task that
\* returns False changes no status.
C37_CancelledStaysCancelled ==
    [][\A i \in TaskIds :
          /\ (task_status[i] = "cancelled" /\ cancel_result[i] = "True") =>
                /\ task_status'[i] = "cancelled"
                /\ timer'[i] = "playing" => timer[i] = "playing"
          /\ (cancel_result'[i] = "False" /\ cancel_result[i] # "False") =>
                task_status' = task_status /\ timer' = timer]_vars

\* C38: at most one task plays audio at any instant: a thread that loads or
\* plays holds audio_lock, the lock has one holder, and a thread whose
\* playback has finished or failed holds it no more.
C38_OnePlaybackAtATime ==
    /\ Cardinality({i \in TaskIds : timer[i] \in {"locked", "playing"}}) <= 1
    /\ \A i \in TaskIds : timer[i] \in {"locked", "playing"} <=> audio_lock = i
    /\ audio_lock = 0 \/ audio_lock \in TaskIds

\* two tasks have fired together: one plays and holds the lock, the other
\* waits for it
C38_Witness ==
    \E i \in TaskIds : \E j \in TaskIds :
        /\ timer[i] = "playing" /\ timer[j] = "want_lock" /\ audio_lock = i

C40_OneMonitorPerEndpoint ==
    \A name \in web_enabled_endpoints(config_file) : monitors[name] <= 1

====
